---- MODULE Spec2Model ----
(***************************************************************************)
(* Etherscan API client: the read-through cache of Client.fetch, the two   *)
(* envelope unwrappers callApi / callJsonRpc, the facade's input           *)
(* validation and the two cache-key strategies (the default serialize of   *)
(* src/cache/index.ts and the test fixture's serialize).                   *)
(*                                                                         *)
(* Strings are sequences of atoms.  An atom is a TLA+ string standing for  *)
(* a fixed piece of text ("module", ":", "x", "0xADDR"); concatenation of  *)
(* JavaScript strings is concatenation of atom sequences, so two keys that *)
(* are equal here are equal strings in the program.                        *)
(***************************************************************************)
EXTENDS Integers, Sequences, FiniteSets, TLC

\* Bounds of the model.
MaxCalls == 2       \* client calls that may be issued (and be in flight together)
MaxParams == 2      \* entries of a request besides `module`
MaxUrlParams == 1   \* the same, for the requests whose URL is encoded
MaxBraces == 3      \* braces in front of and behind the body of a SourceCode string
MaxHexLen == 5      \* characters of a string handed to HexValue / HexString
MaxWeiLen == 4      \* characters of a string handed to Wei
MaxPattern == 2         \* characters of the pattern that fills an address
MaxFractionZeros == 17  \* zeros that open the fraction of a string handed to Ether

(***************************************************************************)
(* JavaScript primitives (type Primitive, index.ts:49)                     *)
(***************************************************************************)
Str(s) == [t |-> "string", s |-> s, n |-> 0]
Num(n) == [t |-> "number", s |-> <<>>, n |-> n]
Undefined == [t |-> "undefined", s |-> <<>>, n |-> 0]
Null == [t |-> "null", s |-> <<>>, n |-> 0]

Entry(name, value) == [name |-> name, value |-> value]

\* value !== undefined && value !== null
IsDefined(v) == v.t \notin {"undefined", "null"}

\* JavaScript truthiness of a primitive: `if (action)`
TruthyPrimitive(v) ==
    CASE v.t = "string" -> v.s # <<>>
      [] v.t = "number" -> v.n # 0
      [] OTHER -> FALSE

Digit(d) == <<"0", "1", "2", "3", "4", "5", "6", "7", "8", "9">>[d + 1]

RECURSIVE NatToString(_)
NatToString(n) ==
    IF n < 10 THEN <<Digit(n)>> ELSE NatToString(n \div 10) \o <<Digit(n % 10)>>

\* Number.prototype.toString() of an integer
NumberToString(n) == IF n < 0 THEN <<"-">> \o NatToString(0 - n) ELSE NatToString(n)

\* `${value}` and value.toString()
TemplateValue(v) ==
    CASE v.t = "string" -> v.s
      [] v.t = "number" -> NumberToString(v.n)
      [] v.t = "undefined" -> <<"undefined">>
      [] OTHER -> <<"null">>

\* The property names the model uses, in the order of String.prototype.localeCompare
\* and of Array.prototype.sort (the same for lower-case ASCII words).
NameOrder ==
    <<"a", "action", "address", "b", "blockno", "c", "endblock", "module", "offset",
      "page", "sort", "startblock", "tag", "txhash">>

Rank(name) == CHOOSE i \in 1..Len(NameOrder) : NameOrder[i] = name

\* params[name] of an object given as its entries in insertion order
Get(params, name) ==
    IF \E i \in 1..Len(params) : params[i].name = name
    THEN params[CHOOSE i \in 1..Len(params) : params[i].name = name].value
    ELSE Undefined

RECURSIVE Insert(_, _)
Insert(e, sorted) ==
    IF sorted = <<>> THEN <<e>>
    ELSE IF Rank(e.name) <= Rank(Head(sorted).name) THEN <<e>> \o sorted
    ELSE <<Head(sorted)>> \o Insert(e, Tail(sorted))

\* entries.toSorted(([a], [b]) => a.localeCompare(b))
RECURSIVE toSorted(_)
toSorted(entries) ==
    IF entries = <<>> THEN <<>> ELSE Insert(Head(entries), toSorted(Tail(entries)))

\* list.join(sep): list is a sequence of strings
RECURSIVE Join(_, _)
Join(list, sep) ==
    IF list = <<>> THEN <<>>
    ELSE IF Len(list) = 1 THEN Head(list)
    ELSE Head(list) \o sep \o Join(Tail(list), sep)

RECURSIVE Concat(_)
Concat(list) == IF list = <<>> THEN <<>> ELSE Head(list) \o Concat(Tail(list))

(***************************************************************************)
(* Key derivation, test fixture (src/fixtures/client.ts:9-20)              *)
(***************************************************************************)
\* A fixture serialize that keeps the entries in insertion order.
fixtureSerializeUnsorted(params) ==
    LET rest == SelectSeq(params, LAMBDA e : e.name \notin {"module", "action"})
        defined == SelectSeq(rest, LAMBDA e : IsDefined(e.value))
        paramsSerialized ==
            [i \in 1..Len(defined) |->
                <<defined[i].name, ":">> \o TemplateValue(defined[i].value)]
        action == Get(params, "action")
        keys == << <<"module", ":">> \o TemplateValue(Get(params, "module")) >>
                \o (IF TruthyPrimitive(action)
                    THEN << <<"action", ":">> \o TemplateValue(action) >>
                    ELSE <<>>)
    IN  Join(keys \o paramsSerialized, <<":">>) \o <<".json">>

fixtureSerialize(params) ==
    LET rest == SelectSeq(params, LAMBDA e : e.name \notin {"module", "action"})
        defined == toSorted(SelectSeq(rest, LAMBDA e : IsDefined(e.value)))
        paramsSerialized ==
            [i \in 1..Len(defined) |->
                <<defined[i].name, ":">> \o TemplateValue(defined[i].value)]
        action == Get(params, "action")
        keys == << <<"module", ":">> \o TemplateValue(Get(params, "module")) >>
                \o (IF TruthyPrimitive(action)
                    THEN << <<"action", ":">> \o TemplateValue(action) >>
                    ELSE <<>>)
    IN  Join(keys \o paramsSerialized, <<":">>) \o <<".json">>

(***************************************************************************)
(* Key derivation, default (src/cache/index.ts:27)                         *)
(*   serialize = object => sha256base64(objectHash(object))                *)
(* objectHash (ohash 1.x) writes "object:<n>:" and then, for the keys in   *)
(* sorted order, <key>:<value>, with every string as                       *)
(* "string:<length>:<text>", a number as "number:<n>", undefined as        *)
(* "Undefined" and null as "Null".  sha256base64 is kept symbolic: the     *)
(* digest of a text is the text between two marker atoms, so that two keys *)
(* are equal exactly when the hashed texts are.                            *)
(***************************************************************************)
hashString(s) == <<"string", ":">> \o NatToString(Len(s)) \o <<":">> \o s

hashValue(v) ==
    CASE v.t = "string" -> hashString(v.s)
      [] v.t = "number" -> <<"number", ":">> \o NumberToString(v.n)
      [] v.t = "undefined" -> <<"Undefined">>
      [] OTHER -> <<"Null">>

objectHash(params) ==
    LET keys == toSorted(params)
    IN  <<"object", ":">> \o NatToString(Len(keys)) \o <<":">>
        \o Concat([i \in 1..Len(keys) |->
                    hashString(<<keys[i].name>>) \o <<":">>
                    \o hashValue(keys[i].value) \o <<",">>])

sha256base64(text) == <<"sha256base64(">> \o text \o <<")">>

serialize(params) == sha256base64(objectHash(params))

\* cache.serialize of the client: createCache({serialize, ...opts})
Serializers == {"default", "fixture"}

cacheSerialize(which, params) ==
    IF which = "fixture" THEN fixtureSerialize(params) ELSE serialize(params)

(***************************************************************************)
(* JSON values: what the transport returns and what the storage holds.     *)
(* An object is given by the properties the unwrappers look at; a property *)
(* the object does not have is Absent.  `error` is <<>> or a one-element   *)
(* sequence holding {code, message}.                                       *)
(***************************************************************************)
Absent == "<absent>"

Obj(status, message, jsonrpc, result, error) ==
    [type |-> "object", prim |-> Absent, status |-> status, message |-> message,
     jsonrpc |-> jsonrpc, result |-> result, error |-> error]

Prim(type, text) ==
    [type |-> type, prim |-> text, status |-> Absent, message |-> Absent,
     jsonrpc |-> Absent, result |-> Absent, error |-> <<>>]

\* storage.getItem resolves to null for a key that is not stored
NullJson == Prim("null", "null")
UndefinedJson == Prim("undefined", Absent)

RestOk == Obj("1", "OK", Absent, "0x1", <<>>)
RestError == Obj("0", "NOTOK", Absent, "rate limited", <<>>)
RpcOk == Obj(Absent, Absent, "2.0", "0x1", <<>>)
RpcError == Obj(Absent, Absent, "2.0", Absent,
                <<[code |-> 0 - 32000, message |-> "execution reverted"]>>)
NeitherEnvelope == Obj(Absent, Absent, Absent, Absent, <<>>)
Zero == Prim("number", "0")

\* Bodies the transport may answer with (ofetch parses the body as JSON).
TransportPayloads == {RestOk, RestError, RpcOk, RpcError, NeitherEnvelope, Zero}

\* JavaScript truthiness of a JSON value: `if (value)`
Truthy(v) ==
    CASE v.type = "object" -> TRUE
      [] v.type = "number" -> v.prim # "0"
      [] v.type = "string" -> v.prim # ""
      [] v.type = "boolean" -> v.prim = "true"
      [] OTHER -> FALSE

\* A property of unknown type as a JavaScript value
AsValue(text) == IF text = Absent THEN UndefinedJson ELSE Prim("string", text)

(***************************************************************************)
(* Outcome of an asynchronous call: a returned value or a thrown error     *)
(***************************************************************************)
Return(v) ==
    [kind |-> "return", value |-> v, error |-> "none", message |-> Absent, code |-> <<>>]

\* `new Error(message)`: an Error has a message and no code property
Throw(class, message) ==
    [kind |-> "throw", value |-> UndefinedJson, error |-> class, message |-> message,
     code |-> <<>>]

Pending == [kind |-> "pending", value |-> UndefinedJson, error |-> "none",
            message |-> Absent, code |-> <<>>]

(***************************************************************************)
(* Envelope schemas (index.ts:51-63, 229-251; part_011:102-115, 152-169)   *)
(***************************************************************************)
\* z.discriminatedUnion("status", [SuccessResponse, ErrorResponse]).safeParse
ResponseSuccess(v) ==
    /\ v.type = "object"
    /\ v.status \in {"1", "0"}
    /\ v.message # Absent

\* JsonRpcResponseOk: {id: unknown, jsonrpc: "2.0", result: unknown}.  A z.unknown()
\* property accepts a missing key, so `result` need not be present.
JsonRpcResponseOk(v) == v.type = "object" /\ v.jsonrpc = "2.0"

\* JsonRpcResponseError: {id: unknown, jsonrpc: "2.0", error: {code, message}}
JsonRpcResponseError(v) == v.type = "object" /\ v.jsonrpc = "2.0" /\ v.error # <<>>

\* JsonRpcResponseOk.or(JsonRpcResponseError): the first option that parses wins
JsonRpcResponse(v) ==
    IF JsonRpcResponseOk(v) THEN [success |-> TRUE, ok |-> TRUE]
    ELSE IF JsonRpcResponseError(v) THEN [success |-> TRUE, ok |-> FALSE]
    ELSE [success |-> FALSE, ok |-> FALSE]

\* The two builds of Client.callApi in the repository
Builds == {"index.ts", "part_011"}

\* String(x) for `new Error(x)`: undefined gives the empty message
ErrorMessage(text) == IF text = Absent THEN "" ELSE text

\* A callApi that hands an unrecognised response on instead of rejecting it.
callApiLenient(build, response) ==
    IF ~ResponseSuccess(response) THEN Return(AsValue(response.result))
    ELSE IF response.status = "0"
         THEN Throw("Error", IF build = "index.ts" THEN ErrorMessage(response.result)
                             ELSE response.message)
         ELSE Return(AsValue(response.result))

\* callApi after `await this.fetch(params)` (index.ts:968-972, part_011:976-980)
callApi(build, response) ==
    IF ~ResponseSuccess(response) THEN Throw("ZodError", "invalid response")
    ELSE IF response.status = "0"
         THEN Throw("Error", IF build = "index.ts" THEN ErrorMessage(response.result)
                             ELSE response.message)
         ELSE Return(AsValue(response.result))

\* A callJsonRpc that also unwraps a REST envelope.
callJsonRpcEitherEnvelope(response) ==
    LET jsonRpcResponse == JsonRpcResponse(response)
    IN  IF ~jsonRpcResponse.success
        THEN IF ~ResponseSuccess(response) THEN Throw("ZodError", "invalid response")
             ELSE IF response.status = "0"
                  THEN Throw("Error", ErrorMessage(response.result))
                  ELSE Return(AsValue(response.result))
        ELSE IF ~jsonRpcResponse.ok THEN Throw("Error", response.error[1].message)
        ELSE Return(AsValue(response.result))

\* callJsonRpc after `await this.fetch(...)` (index.ts:980-984, part_011:988-992)
callJsonRpc(response) ==
    LET jsonRpcResponse == JsonRpcResponse(response)
    IN  IF ~jsonRpcResponse.success THEN Throw("ZodError", "invalid response")
        ELSE IF ~jsonRpcResponse.ok THEN Throw("Error", response.error[1].message)
        ELSE Return(AsValue(response.result))

\* What the caller of `via` gets once fetch has returned `response`
Unwrap(via, build, response) ==
    CASE via = "callApi" -> callApi(build, response)
      [] via = "callJsonRpc" -> callJsonRpc(response)
      [] OTHER -> Return(response)

(***************************************************************************)
(* Input codecs used by the facade (core.ts)                               *)
(***************************************************************************)
LowerAddress == "0xde0b295669a9fd93d5f28d9ec85e40f4cb697bae"
ChecksumAddress == "0xde0B295669a9FD93d5F28D9Ec85E40f4cb697BAe"
MalformedAddress == "0xde0b"

\* Address (core.ts:7-19): viem's getAddress accepts 0x + 40 hex digits in lower or
\* checksum case and returns the checksum form; anything else adds a zod issue.
AddressSuccess(value) == value \in {LowerAddress, ChecksumAddress}
AddressParse(value) == ChecksumAddress

HexDigits ==
    {"0", "1", "2", "3", "4", "5", "6", "7", "8", "9", "a", "b", "c", "d", "e", "f",
     "A", "B", "C", "D", "E", "F"}

\* HexString (core.ts:51): value.match(/^0x[0-9a-fA-F]*$/i); value is a sequence of
\* one-character atoms here.
HexStringSuccess(value) ==
    /\ Len(value) >= 2
    /\ value[1] = "0"
    /\ value[2] \in {"x", "X"}
    /\ \A i \in 3..Len(value) : value[i] \in HexDigits

\* Integer.min(lo) and Integer.min(lo).max(hi) on a number (core.ts:62)
IntegerMin(n, lo) == n >= lo
IntegerMinMax(n, lo, hi) == n >= lo /\ n <= hi

\* An optional numeric option: <<>> when the caller leaves it out
OptionalNum(opt) == IF opt = <<>> THEN Undefined ELSE Num(opt[1])

\* PaginationOptions.safeParse(options).success (index.ts:68-74): page >= 1,
\* 1 <= offset <= 10000, each optional
PaginationOptionsSuccess(page, offset) ==
    /\ page = <<>> \/ IntegerMin(page[1], 1)
    /\ offset = <<>> \/ IntegerMinMax(offset[1], 1, 10000)

\* ensurePaginationOptions (index.ts:87-90)
ensurePaginationOptions(page, offset) ==
    <<Entry("startblock", Undefined), Entry("endblock", Undefined),
      Entry("page", OptionalNum(page)), Entry("offset", OptionalNum(offset)),
      Entry("sort", Undefined)>>

(***************************************************************************)
(* Client facade: argument validation and parameter assembly.  A request   *)
(* is [method, params, address, hash, page, offset, block]; Assemble gives *)
(* whether the arguments pass their schemas, which unwrapper the method    *)
(* goes through and the parameter object it hands to it.                   *)
(***************************************************************************)
Request(method, params, address, hash, page, offset, block) ==
    [method |-> method, params |-> params, address |-> address, hash |-> hash,
     page |-> page, offset |-> offset, block |-> block]

Assembled(valid, via, params) == [valid |-> valid, via |-> via, params |-> params]

\* getBalance (index.ts:316-324)
getBalance(rq) ==
    Assembled(AddressSuccess(rq.address), "callApi",
        <<Entry("module", Str(<<"account">>)), Entry("action", Str(<<"balance">>)),
          Entry("address", Str(<<AddressParse(rq.address)>>)),
          Entry("tag", Str(<<"latest">>))>>)

\* getTransactions (index.ts:354-362)
getTransactions(rq) ==
    Assembled(AddressSuccess(rq.address) /\ PaginationOptionsSuccess(rq.page, rq.offset),
        "callApi",
        <<Entry("module", Str(<<"account">>)), Entry("action", Str(<<"txlist">>)),
          Entry("address", Str(<<AddressParse(rq.address)>>))>>
        \o ensurePaginationOptions(rq.page, rq.offset))

\* checkTransactionStatus (index.ts:546-553)
checkTransactionStatus(rq) ==
    Assembled(HexStringSuccess(rq.hash), "callApi",
        <<Entry("module", Str(<<"transaction">>)), Entry("action", Str(<<"getstatus">>)),
          Entry("txhash", Str(rq.hash))>>)

\* getBlockAndUncleRewardsByBlockNumber (index.ts:579-586)
getBlockAndUncleRewardsByBlockNumber(rq) ==
    Assembled(IntegerMin(rq.block, 0), "callApi",
        <<Entry("module", Str(<<"block">>)), Entry("action", Str(<<"getblockreward">>)),
          Entry("blockno", Num(rq.block))>>)

\* getLogs with an {address} filter (index.ts:633-641); GetLogsInput takes the
\* address as z.string() (logs.ts:7-24), and the default LogPaginationOptions
\* contribute no entry.
getLogs(rq) ==
    Assembled(TRUE, "callApi",
        <<Entry("module", Str(<<"logs">>)), Entry("action", Str(<<"getLogs">>)),
          Entry("address", Str(<<rq.address>>))>>)

\* getTransactionReceipt (index.ts:766-773): callJsonRpc puts module "proxy" first
getTransactionReceipt(rq) ==
    Assembled(HexStringSuccess(rq.hash), "callJsonRpc",
        <<Entry("module", Str(<<"proxy">>)),
          Entry("action", Str(<<"eth_getTransactionReceipt">>)),
          Entry("txhash", Str(rq.hash))>>)

\* getBlockNumber (index.ts:647-652)
getBlockNumber(rq) ==
    Assembled(TRUE, "callJsonRpc",
        <<Entry("module", Str(<<"proxy">>)), Entry("action", Str(<<"eth_blockNumber">>))>>)

Assemble(rq) ==
    CASE rq.method = "getBalance" -> getBalance(rq)
      [] rq.method = "getTransactions" -> getTransactions(rq)
      [] rq.method = "checkTransactionStatus" -> checkTransactionStatus(rq)
      [] rq.method = "getBlockAndUncleRewardsByBlockNumber" ->
            getBlockAndUncleRewardsByBlockNumber(rq)
      [] rq.method = "getLogs" -> getLogs(rq)
      [] rq.method = "getTransactionReceipt" -> getTransactionReceipt(rq)
      [] rq.method = "getBlockNumber" -> getBlockNumber(rq)
      [] OTHER -> Assembled(TRUE, "fetch", rq.params)    \* client.fetch(params)

(***************************************************************************)
(* State                                                                   *)
(***************************************************************************)
VARIABLES
    client,     \* ClientOptions: [cache, serializer, build]
    storage,    \* cache.storage: key -> stored JSON value
    call,       \* the client calls, by caller
    writeLog,   \* the storage.setItem calls that resolved, in order
    reqA, reqB, \* two requests whose keys are compared
    keyA, keyB, \* their cache keys
    hitB,       \* what the second request's getItem finds: <<>> or <<owner>>
    optsA, optsB, \* the options of the clients that made the two requests
    urlA, urlB, \* the URLs the two requests were encoded to
    input,      \* a JSON value handed to a response schema, <<>> when there is none
    output      \* <<>> or <<the outcome of parsing `input`>>

vars == <<client, storage, call, writeLog, reqA, reqB, keyA, keyB, hitB,
          optsA, optsB, urlA, urlB, input, output>>

clientVars == <<client, storage, call, writeLog>>
schemaVars == <<input, output>>
keyVars == <<reqA, reqB, keyA, keyB, hitB, optsA, optsB, urlA, urlB, schemaVars>>

Calls == 1..MaxCalls

EmptyStorage == [k \in {} |-> NullJson]

\* storage.getItem(key)
getItem(store, key) == IF key \in DOMAIN store THEN store[key] ELSE NullJson

\* storage.setItem(key, value)
setItem(store, key, value) ==
    [k \in DOMAIN store \cup {key} |-> IF k = key THEN value ELSE store[k]]

removeItem(store, key) == [k \in DOMAIN store \ {key} |-> store[k]]

\* fetch, index.ts:944: `if (value)` decides between a hit and a miss
CacheHit(value) == Truthy(value)

\* A fetch that drops the entry it has just served.
storageAfterGetItemEvict(store, key, value) ==
    IF CacheHit(value) THEN removeItem(store, key) ELSE store

\* fetch, index.ts:943-946: reading the cache leaves the storage as it is
storageAfterGetItem(store, key, value) == store

\* A fetch that never overwrites an entry (first write wins).
storageAfterOfetchKeepFirst(store, key, response) ==
    IF key \in DOMAIN store THEN store ELSE setItem(store, key, response)

\* A fetch that stores the envelope's `result` in place of the response.
storageAfterOfetchResult(store, key, response) ==
    setItem(store, key, AsValue(response.result))

\* fetch, index.ts:947-948: the response is stored under the key, as received
storageAfterOfetch(store, key, response) == setItem(store, key, response)

NotStarted ==
    [pc |-> "idle", request |-> Request("none", <<>>, LowerAddress, <<>>, <<>>, <<>>, 0),
     via |-> "none", valid |-> TRUE, params |-> <<>>,
     key |-> <<>>, got |-> NullJson, response |-> UndefinedJson, fetched |-> Pending,
     out |-> Pending, invoked |-> 0, reads |-> 0, writes |-> 0, after |-> {},
     keysAtStart |-> {}]

NoArgs(method, params) == Request(method, params, LowerAddress, <<>>, <<>>, <<>>, 0)

\* Requests of the cache scenarios: client.fetch with the same entries in two
\* insertion orders (index.test.ts:24), one REST method and one JSON-RPC method.
CoreRequests ==
    { NoArgs("fetch", <<Entry("module", Str(<<"test">>)), Entry("a", Str(<<"x">>))>>),
      NoArgs("fetch", <<Entry("a", Str(<<"x">>)), Entry("module", Str(<<"test">>))>>),
      NoArgs("getBalance", <<>>),
      NoArgs("getBlockNumber", <<>>) }

Addresses == {LowerAddress, ChecksumAddress, MalformedAddress}
Hashes == {<<"0", "x", "a", "b">>, <<"0", "x", "g">>, <<"a", "b">>}
Pages == {<<>>, <<0>>, <<1>>}
Offsets == {<<>>, <<0>>, <<1>>, <<10000>>, <<10001>>}
BlockNumbers == {0 - 1, 0, 1}

\* Facade calls with valid and invalid arguments
FacadeRequests ==
    {Request("getBalance", <<>>, a, <<>>, <<>>, <<>>, 0) : a \in Addresses}
    \cup {Request("getTransactions", <<>>, a, <<>>, p, o, 0) :
            a \in {LowerAddress, MalformedAddress}, p \in Pages, o \in Offsets}
    \cup {Request("checkTransactionStatus", <<>>, LowerAddress, h, <<>>, <<>>, 0) :
            h \in Hashes}
    \cup {Request("getBlockAndUncleRewardsByBlockNumber", <<>>, LowerAddress, <<>>,
                  <<>>, <<>>, b) : b \in BlockNumbers}
    \cup {Request("getLogs", <<>>, a, <<>>, <<>>, <<>>, 0) :
            a \in {LowerAddress, MalformedAddress}}
    \cup {Request("getTransactionReceipt", <<>>, LowerAddress, h, <<>>, <<>>, 0) :
            h \in Hashes}

Done(c) == call[c].pc = "done"

(***************************************************************************)
(* Client.fetch and its callers, one action per piece of code between two  *)
(* awaits (index.ts:937-985)                                               *)
(***************************************************************************)
\* A facade method is called: the arguments are parsed, the parameters assembled,
\* the URL encoded and, with a cache, the key derived and getItem issued; without
\* one, ofetch is invoked at once.  Callers are numbered in the order of their calls.
Call(c, rq) ==
    /\ call[c].pc = "idle"
    /\ \A d \in Calls : d < c => call[d].pc # "idle"
    /\ LET a == Assemble(rq)
           started == [NotStarted EXCEPT !.request = rq, !.via = a.via,
                          !.valid = a.valid, !.params = a.params,
                          !.after = {d \in Calls : Done(d)},
                          !.keysAtStart = DOMAIN storage]
       IN  call' = [call EXCEPT ![c] =
             IF ~a.valid
             THEN [started EXCEPT !.pc = "done", !.params = <<>>,
                                  !.out = Throw("ZodError", "invalid input")]
             ELSE IF ~client.cache
             THEN [started EXCEPT !.pc = "ofetch", !.invoked = 1]
             ELSE [started EXCEPT !.pc = "getItem", !.reads = 1,
                                  !.key = cacheSerialize(client.serializer, a.params)]]
    /\ UNCHANGED <<client, storage, writeLog, keyVars>>

\* A fetch that waits until no other call is at work on its key.
GetItemExclusive(c) ==
    /\ \A d \in Calls \ {c} : call[d].pc \in {"idle", "done"} \/ call[d].key # call[c].key
    /\ call[c].pc = "getItem"
    /\ LET value == getItem(storage, call[c].key)
       IN  /\ storage' = storageAfterGetItem(storage, call[c].key, value)
           /\ call' = [call EXCEPT ![c] =
                IF CacheHit(value)
                THEN [@ EXCEPT !.pc = "done", !.got = value, !.fetched = Return(value),
                               !.out = Unwrap(call[c].via, client.build, value)]
                ELSE [@ EXCEPT !.pc = "ofetch", !.got = value, !.invoked = @ + 1]]
    /\ UNCHANGED <<client, writeLog, keyVars>>

\* getItem resolves: a hit returns the stored value, a miss invokes the transport
GetItem(c) ==
    /\ call[c].pc = "getItem"
    /\ LET value == getItem(storage, call[c].key)
       IN  /\ storage' = storageAfterGetItem(storage, call[c].key, value)
           /\ call' = [call EXCEPT ![c] =
                IF CacheHit(value)
                THEN [@ EXCEPT !.pc = "done", !.got = value, !.fetched = Return(value),
                               !.out = Unwrap(call[c].via, client.build, value)]
                ELSE [@ EXCEPT !.pc = "ofetch", !.got = value, !.invoked = @ + 1]]
    /\ UNCHANGED <<client, writeLog, keyVars>>

\* A fetch that stores the response whether or not the client has a cache.
OfetchResolveAlwaysStores(c, body) ==
    /\ call[c].pc = "ofetch"
    /\ call' = [call EXCEPT ![c] = [@ EXCEPT !.pc = "setItem", !.response = body]]
    /\ UNCHANGED <<client, storage, writeLog, keyVars>>

\* The transport answers with a JSON body
OfetchResolve(c, body) ==
    /\ call[c].pc = "ofetch"
    /\ call' = [call EXCEPT ![c] =
            IF client.cache
            THEN [@ EXCEPT !.pc = "setItem", !.response = body]
            ELSE [@ EXCEPT !.pc = "done", !.response = body, !.fetched = Return(body),
                           !.out = Unwrap(call[c].via, client.build, body)]]
    /\ UNCHANGED <<client, storage, writeLog, keyVars>>

\* A fetch that invokes the transport once more after its first failure
OfetchRejectRetry(c) ==
    /\ call[c].pc = "ofetch"
    /\ call' = [call EXCEPT ![c] =
            IF call[c].invoked < 2
            THEN [@ EXCEPT !.invoked = @ + 1]
            ELSE [@ EXCEPT !.pc = "done", !.fetched = Throw("FetchError", "fetch failed"),
                           !.out = Throw("FetchError", "fetch failed")]]
    /\ UNCHANGED <<client, storage, writeLog, keyVars>>

\* The transport fails (network error, body that is not JSON): the error propagates
OfetchReject(c) ==
    /\ call[c].pc = "ofetch"
    /\ call' = [call EXCEPT ![c] =
            [@ EXCEPT !.pc = "done", !.fetched = Throw("FetchError", "fetch failed"),
                      !.out = Throw("FetchError", "fetch failed")]]
    /\ UNCHANGED <<client, storage, writeLog, keyVars>>

\* setItem resolves: fetch returns the response and the caller unwraps it
SetItem(c) ==
    /\ call[c].pc = "setItem"
    /\ storage' = storageAfterOfetch(storage, call[c].key, call[c].response)
    /\ writeLog' = Append(writeLog,
                          [caller |-> c, key |-> call[c].key, value |-> call[c].response])
    /\ call' = [call EXCEPT ![c] =
            [@ EXCEPT !.pc = "done", !.writes = @ + 1, !.fetched = Return(call[c].response),
                      !.out = Unwrap(call[c].via, client.build, call[c].response)]]
    /\ UNCHANGED <<client, keyVars>>

NoKeys ==
    /\ reqA = <<>> /\ reqB = <<>> /\ keyA = <<>> /\ keyB = <<>> /\ hitB = <<>>
    /\ optsA = <<>> /\ optsB = <<>> /\ urlA = <<>> /\ urlB = <<>>

NoInput == input = <<>> /\ output = <<>>

\* new Client({cache: createCache()}) (index.test.ts:19-22) or new Client({}), in
\* either build
Init ==
    /\ client \in [cache : BOOLEAN, serializer : {"default"}, build : Builds]
    /\ storage = EmptyStorage
    /\ call = [c \in Calls |-> NotStarted]
    /\ writeLog = <<>>
    /\ NoKeys
    /\ NoInput

Next ==
    \/ \E c \in Calls, rq \in CoreRequests : Call(c, rq)
    \/ \E c \in Calls : GetItem(c)
    \/ \E c \in Calls, body \in TransportPayloads : OfetchResolve(c, body)
    \/ \E c \in Calls : OfetchReject(c)
    \/ \E c \in Calls : SetItem(c)

Spec == Init /\ [][Next]_vars

\* The facade called with valid and invalid arguments, by a caller that awaits
\* each call before the next
CallFacade(c, rq) ==
    /\ \A d \in Calls : call[d].pc \in {"idle", "done"}
    /\ Call(c, rq)

NextFacade ==
    \/ \E c \in Calls, rq \in FacadeRequests : CallFacade(c, rq)
    \/ \E c \in Calls : GetItem(c)
    \/ \E c \in Calls, body \in TransportPayloads : OfetchResolve(c, body)
    \/ \E c \in Calls : OfetchReject(c)
    \/ \E c \in Calls : SetItem(c)

SpecFacade == Init /\ [][NextFacade]_vars

\* fetch, index.ts:943: the promise of storage.getItem settles
AwaitGetItem(c) == GetItem(c)

\* fetch, index.ts:940 and 947: the promise of ofetch settles, with a body or an
\* error
AwaitOfetch(c) == (\E body \in TransportPayloads : OfetchResolve(c, body)) \/ OfetchReject(c)

\* fetch, index.ts:948: the promise of storage.setItem settles
AwaitSetItem(c) == SetItem(c)

\* Every promise a call awaits settles: the storage and the transport complete
\* each operation they were asked for
PromisesSettle ==
    \A c \in Calls :
        /\ WF_vars(AwaitGetItem(c))
        /\ WF_vars(AwaitOfetch(c))
        /\ WF_vars(AwaitSetItem(c))

SpecLive == Init /\ [][Next]_vars /\ PromisesSettle

(***************************************************************************)
(* Key derivation on its own: two requests, the first stores its payload   *)
(* under its key, the second looks its key up.                             *)
(***************************************************************************)
Colon == <<"x", ":", "b", ":", "x">>

KeyEntries ==
    {Entry("module", Str(<<"account">>)), Entry("module", Str(<<"proxy">>)),
     Entry("action", Str(<<"balance">>))}
    \cup {Entry("a", v) : v \in {Str(<<"x">>), Str(Colon), Undefined}}
    \cup {Entry("b", v) : v \in {Str(<<"x">>), Undefined}}

DistinctNames(params) ==
    \A i, j \in 1..Len(params) : params[i].name = params[j].name => i = j

\* Parameter objects: `module` and up to MaxParams further entries, in any
\* insertion order
KeyRequests ==
    {p \in UNION {[1..n -> KeyEntries] : n \in 1..(MaxParams + 1)} :
        /\ DistinctNames(p)
        /\ \E i \in 1..Len(p) : p[i].name = "module"}

InitKey ==
    /\ client \in [cache : {TRUE}, serializer : Serializers, build : {"index.ts"}]
    /\ storage = EmptyStorage
    /\ call = [c \in Calls |-> NotStarted]
    /\ writeLog = <<>>
    /\ NoKeys
    /\ NoInput

\* The first request: its key is derived and its payload stored under it
RequestA(p) ==
    /\ reqA = <<>>
    /\ reqA' = p
    /\ keyA' = cacheSerialize(client.serializer, p)
    /\ UNCHANGED <<clientVars, reqB, keyB, hitB, optsA, optsB, urlA, urlB, schemaVars>>

\* The second request: its key is derived and looked up
RequestB(q) ==
    /\ reqA # <<>>
    /\ reqB = <<>>
    /\ reqB' = q
    /\ keyB' = cacheSerialize(client.serializer, q)
    /\ hitB' = IF keyB' = keyA THEN <<"A">> ELSE <<>>
    /\ UNCHANGED <<clientVars, reqA, keyA, optsA, optsB, urlA, urlB, schemaVars>>

NextKey ==
    \/ \E p \in KeyRequests : RequestA(p)
    \/ \E q \in KeyRequests : RequestB(q)

SpecKey == InitKey /\ [][NextKey]_vars

(***************************************************************************)
(* Request URL and cache key of one request (index.ts:937-964), for two    *)
(* clients with their own apiKey / apiUrl that share one cache.            *)
(***************************************************************************)
DefaultApiUrl == <<"https://api.etherscan.io/api">>
CustomApiUrl == <<"https://api-sepolia.etherscan.io/api">>
ApiKeys == {<<"KEY1">>, <<"KEY2">>}

\* Partial<ClientOptions>: <<>> for an option left out
ClientOptionsSet ==
    {[apiKey |-> <<>>, apiUrl |-> <<>>], [apiKey |-> <<"KEY1">>, apiUrl |-> <<>>],
     [apiKey |-> <<"KEY2">>, apiUrl |-> <<>>],
     [apiKey |-> <<"KEY1">>, apiUrl |-> CustomApiUrl]}

\* constructor (index.ts:299-305): apiUrl keeps its default unless one is given
apiUrl(opts) == IF opts.apiUrl # <<>> THEN opts.apiUrl ELSE DefaultApiUrl

\* URLSearchParams serialisation of a value: ":" is percent-encoded
percentEncode(text) ==
    [i \in 1..Len(text) |-> IF text[i] = ":" THEN "%3A" ELSE text[i]]

\* encodeQueryParams (index.ts:952-964): apikey first when there is one, then the
\* defined parameters in insertion order
encodeQueryParams(opts, params) ==
    LET defined == SelectSeq(params, LAMBDA e : IsDefined(e.value))
        apikey == IF opts.apiKey # <<>> THEN << <<"apikey", "=">> \o opts.apiKey >>
                  ELSE <<>>
        pairs == [i \in 1..Len(defined) |->
                    <<defined[i].name, "=">>
                    \o percentEncode(TemplateValue(defined[i].value))]
    IN  apiUrl(opts) \o <<"?">> \o Join(apikey \o pairs, <<"&">>)

\* A fetch that derives the key from the request URL.
fetchKeyOfUrl(opts, which, params) ==
    sha256base64(encodeQueryParams(opts, params))

\* fetch, index.ts:942: the key is derived from the parameters alone
fetchKey(opts, which, params) == cacheSerialize(which, params)

UrlEntries ==
    {Entry("module", Str(<<"account">>)), Entry("module", Str(<<"proxy">>))}
    \cup {Entry("a", v) : v \in {Str(<<"x">>), Undefined, Null}}
    \cup {Entry("b", v) : v \in {Str(<<"x">>), Undefined}}

\* Parameter objects: `module` and up to MaxUrlParams further entries
UrlRequests ==
    {p \in UNION {[1..n -> UrlEntries] : n \in 1..(MaxUrlParams + 1)} :
        /\ DistinctNames(p)
        /\ \E i \in 1..Len(p) : p[i].name = "module"}

\* The first client's request: URL encoded, key derived, payload stored
FetchA(opts, p) ==
    /\ reqA = <<>>
    /\ reqA' = p
    /\ optsA' = opts
    /\ urlA' = encodeQueryParams(opts, p)
    /\ keyA' = fetchKey(opts, client.serializer, p)
    /\ UNCHANGED <<clientVars, reqB, keyB, hitB, optsB, urlB, schemaVars>>

\* The second client's request: URL encoded, key derived and looked up
FetchB(opts, q) ==
    /\ reqA # <<>>
    /\ reqB = <<>>
    /\ reqB' = q
    /\ optsB' = opts
    /\ urlB' = encodeQueryParams(opts, q)
    /\ keyB' = fetchKey(opts, client.serializer, q)
    /\ hitB' = IF keyB' = keyA THEN <<"A">> ELSE <<>>
    /\ UNCHANGED <<clientVars, reqA, keyA, optsA, urlA, schemaVars>>

NextUrl ==
    \/ \E opts \in ClientOptionsSet, p \in UrlRequests : FetchA(opts, p)
    \/ \E opts \in ClientOptionsSet, q \in UrlRequests : FetchB(opts, q)

SpecUrl == InitKey /\ [][NextUrl]_vars

(***************************************************************************)
(* Response schemas (zod).  A JSON value handed to a schema is a primitive *)
(* of the kinds above, an array, or an object given by its properties; a   *)
(* string is a sequence of one-character atoms.  The outcome of a field    *)
(* is "ok", "issue" (a zod issue was added) or "throw" (an exception left  *)
(* the schema).                                                            *)
(***************************************************************************)
Arr == [t |-> "array", s |-> <<>>, n |-> 0]

Digits == {"0", "1", "2", "3", "4", "5", "6", "7", "8", "9"}

\* A string of decimal digits ("" included): Number(""), BigInt("") are 0
IsDecimal(chars) == \A i \in 1..Len(chars) : chars[i] \in Digits

\* A hexadecimal literal 0x<digits>, which Number() and BigInt() read as a number
IsHexLiteral(chars) == HexStringSuccess(chars) /\ Len(chars) >= 3

Whitespace == {" "}

RECURSIVE TrimStart(_)
TrimStart(chars) ==
    IF chars # <<>> /\ Head(chars) \in Whitespace THEN TrimStart(Tail(chars)) ELSE chars

RECURSIVE TrimEnd(_)
TrimEnd(chars) ==
    IF chars # <<>> /\ chars[Len(chars)] \in Whitespace
    THEN TrimEnd(SubSeq(chars, 1, Len(chars) - 1)) ELSE chars

Trim(chars) == TrimEnd(TrimStart(chars))

HexDigitValue(c) ==
    CASE c \in Digits -> CHOOSE d \in 0..9 : Digit(d) = c
      [] c \in {"a", "A"} -> 10
      [] c \in {"b", "B"} -> 11
      [] c \in {"c", "C"} -> 12
      [] c \in {"d", "D"} -> 13
      [] c \in {"e", "E"} -> 14
      [] OTHER -> 15

\* The number written by a string of digits in the given base
RECURSIVE DigitsValue(_, _)
DigitsValue(chars, base) ==
    IF chars = <<>> THEN 0
    ELSE DigitsValue(SubSeq(chars, 1, Len(chars) - 1), base) * base
         + HexDigitValue(chars[Len(chars)])

\* StringToBigInt / StringToNumber on an integer literal: white space is trimmed,
\* "" is 0, a decimal literal may carry a sign, a 0x literal may not.  (The strings
\* handed to Number() here have no fraction or exponent.)
StringToBigInt(chars) ==
    LET text == Trim(chars)
    IN  IF IsDecimal(text) THEN [ok |-> TRUE, n |-> DigitsValue(text, 10)]
        ELSE IF text[1] \in {"-", "+"} /\ Len(text) >= 2 /\ IsDecimal(Tail(text))
        THEN [ok |-> TRUE,
              n |-> IF text[1] = "-" THEN 0 - DigitsValue(Tail(text), 10)
                    ELSE DigitsValue(Tail(text), 10)]
        ELSE IF IsHexLiteral(text)
        THEN [ok |-> TRUE, n |-> DigitsValue(SubSeq(text, 3, Len(text)), 16)]
        ELSE [ok |-> FALSE, n |-> 0]

\* zod releases allowed by "^3.21.4": z.coerce.bigint() lets the exception of
\* BigInt(input) escape in the older ones and reports an issue in the newer ones
ZodBuilds == {"bigint-throws", "bigint-issue"}

\* HexString (core.ts:51)
HexString(v) == IF v.t = "string" /\ HexStringSuccess(v.s) THEN "ok" ELSE "issue"

\* Integer = z.coerce.number().int() (core.ts:62): Number(input) must be an integer
Integer(v) ==
    CASE v.t = "string" -> IF StringToBigInt(v.s).ok THEN "ok" ELSE "issue"
      [] v.t = "undefined" -> "issue"
      [] OTHER -> "ok"

\* Wei = z.coerce.bigint() (core.ts:67): BigInt(input) throws for a string that is
\* not a number, for undefined and for null
Wei(v, zod) ==
    LET failed == IF zod = "bigint-throws" THEN "throw" ELSE "issue"
    IN  CASE v.t = "string" -> IF StringToBigInt(v.s).ok THEN "ok" ELSE failed
          [] v.t \in {"undefined", "null"} -> failed
          [] OTHER -> "ok"

\* The position of the "." of a string, 0 when it has none
DotAt(chars) ==
    IF \E i \in 1..Len(chars) : chars[i] = "."
    THEN CHOOSE i \in 1..Len(chars) :
            chars[i] = "." /\ \A j \in 1..(i - 1) : chars[j] # "."
    ELSE 0

\* /^(-?)([0-9]*)\.?([0-9]*)$/.test(value)
IsDecimalNumber(chars) ==
    LET unsigned == IF chars # <<>> /\ chars[1] = "-" THEN Tail(chars) ELSE chars
        dot == DotAt(unsigned)
    IN  IF dot = 0 THEN IsDecimal(unsigned)
        ELSE /\ IsDecimal(SubSeq(unsigned, 1, dot - 1))
             /\ IsDecimal(SubSeq(unsigned, dot + 1, Len(unsigned)))

\* Ether = z.string().transform(ether => parseEther(ether)) (core.ts:26):
\* parseEther throws for a string that is not a decimal number
Ether(v) ==
    IF v.t # "string" THEN "issue" ELSE IF IsDecimalNumber(v.s) THEN "ok" ELSE "throw"

\* Address (core.ts:7-19) on JSON: getAddress accepts 0x and 40 hex digits
AddressChars == <<"0", "x">> \o [i \in 1..40 |-> "a"]

\* String.prototype.toLowerCase / toUpperCase on the letters of a hex string
LowerCaseChar(c) ==
    CASE c = "A" -> "a" [] c = "B" -> "b" [] c = "C" -> "c" [] c = "D" -> "d"
      [] c = "E" -> "e" [] c = "F" -> "f" [] c = "X" -> "x" [] OTHER -> c

UpperCaseChar(c) ==
    CASE c = "a" -> "A" [] c = "b" -> "B" [] c = "c" -> "C" [] c = "d" -> "D"
      [] c = "e" -> "E" [] c = "f" -> "F" [] c = "x" -> "X" [] OTHER -> c

toLowerCase(chars) == [i \in 1..Len(chars) |-> LowerCaseChar(chars[i])]

AddressDigits == 40

\* addressRegex of viem: /^0x[a-fA-F0-9]{40}$/
addressRegex(chars) ==
    /\ Len(chars) = AddressDigits + 2 /\ chars[1] = "0" /\ chars[2] = "x"
    /\ \A i \in 3..Len(chars) :
            chars[i] \in Digits \cup {"a", "b", "c", "d", "e", "f", "A", "B", "C", "D", "E", "F"}

\* The nibbles of keccak256(hexAddress): a function of the lower-case digits (the
\* digest itself is outside the model; this one is a sum of the digits and the
\* position)
RECURSIVE SumOfDigits(_)
SumOfDigits(chars) ==
    IF chars = <<>> THEN 0 ELSE HexDigitValue(Head(chars)) + SumOfDigits(Tail(chars))

keccak256(hexAddress) ==
    [i \in 1..Len(hexAddress) |-> (SumOfDigits(hexAddress) + 3 * i) % 16]

\* checksumAddress of viem: the lower-case digits, each letter in upper case when
\* the nibble of the hash at its position is 8 or more
checksumAddress(address) ==
    LET hexAddress == toLowerCase(SubSeq(address, 3, Len(address)))
        hash == keccak256(hexAddress)
    IN  <<"0", "x">> \o [i \in 1..Len(hexAddress) |->
                            IF hash[i] >= 8 THEN UpperCaseChar(hexAddress[i])
                            ELSE hexAddress[i]]

\* isAddress(address, { strict }) of viem
isAddress(address, strict) ==
    /\ addressRegex(address)
    /\ \/ toLowerCase(address) = address
       \/ ~strict
       \/ checksumAddress(address) = address

\* A getAddress that tests the checksum of the address it is given.
getAddressStrict(address) ==
    IF isAddress(address, TRUE) THEN [ok |-> TRUE, value |-> checksumAddress(address)]
    ELSE [ok |-> FALSE, value |-> <<>>]

\* getAddress of viem: isAddress(address, { strict: false }), then the checksum
getAddress(address) ==
    IF isAddress(address, FALSE) THEN [ok |-> TRUE, value |-> checksumAddress(address)]
    ELSE [ok |-> FALSE, value |-> <<>>]

Address(v) ==
    IF v.t = "string" /\ getAddress(v.s).ok THEN "ok" ELSE "issue"

\* z.string(); OptionalAddress = Address.or(OptionalString) (core.ts:36) accepts
\* every string as well
String(v) == IF v.t = "string" THEN "ok" ELSE "issue"

\* z.array(...) of an empty list
Array(v) == IF v.t = "array" THEN "ok" ELSE "issue"

Optional(v, outcome) == IF v.t = "undefined" THEN "ok" ELSE outcome

\* One property of a z.object against its validator
Check(validator, v, zod) ==
    CASE validator = "0x0" -> IF v = Str(<<"0", "x", "0">>) THEN "ok" ELSE "issue"
      [] validator = "0x1" -> IF v = Str(<<"0", "x", "1">>) THEN "ok" ELSE "issue"
      [] validator = "0x2" -> IF v = Str(<<"0", "x", "2">>) THEN "ok" ELSE "issue"
      [] validator = "Wei" -> Wei(v, zod)
      [] validator = "Integer" -> Integer(v)
      [] validator = "Integer.optional" -> Optional(v, Integer(v))
      [] validator = "HexString" -> HexString(v)
      [] validator = "HexValue" -> HexString(v)
      [] validator = "Address" -> Address(v)
      [] validator = "Address.or(null)" -> IF v.t = "null" THEN "ok" ELSE Address(v)
      [] validator = "OptionalAddress" -> String(v)
      [] validator = "null.or(Address).or(OptionalAddress)" ->
            IF v.t = "null" THEN "ok" ELSE String(v)
      [] validator = "Ether" -> Ether(v)
      [] validator = "string" -> String(v)
      [] validator = "array" -> Array(v)
      [] validator = "array.optional" -> Optional(v, Array(v))
      [] OTHER -> "issue"

\* schema.safeParse of a z.object given as <<property, validator>> pairs: every
\* property is parsed; an exception leaves at once, issues are collected
ParseObject(shape, payload, zod) ==
    LET outcomes == {Check(shape[i][2], payload[shape[i][1]], zod) : i \in 1..Len(shape)}
    IN  IF "throw" \in outcomes THEN "throw"
        ELSE IF "issue" \in outcomes THEN "issue" ELSE "ok"

(***************************************************************************)
(* Transaction envelopes (json-rpc.ts:283-389)                             *)
(***************************************************************************)
SignedLegacyTransaction ==
    << <<"type", "0x0">>, <<"nonce", "Wei">>, <<"to", "Address.or(null)">>,
       <<"gas", "Wei">>, <<"value", "Wei">>, <<"input", "HexString">>,
       <<"gasPrice", "Wei">>, <<"chainId", "Integer.optional">>,
       <<"v", "HexValue">>, <<"r", "HexValue">>, <<"s", "HexValue">> >>

Signed2930Transaction ==
    << <<"type", "0x1">>, <<"blockHash", "HexString">>, <<"blockNumber", "Integer">>,
       <<"from", "Address">>, <<"gas", "Wei">>, <<"gasPrice", "Wei">>,
       <<"hash", "HexString">>, <<"input", "HexString">>, <<"nonce", "HexString">>,
       <<"to", "OptionalAddress">>, <<"transactionIndex", "Integer">>,
       <<"value", "Ether">>, <<"accessList", "array">>, <<"chainId", "Integer">>,
       <<"v", "HexValue">>, <<"r", "HexValue">>, <<"s", "HexValue">>,
       <<"yParity", "Integer">> >>

Signed1559Transaction ==
    << <<"type", "0x2">>, <<"blockHash", "HexString">>, <<"blockNumber", "Integer">>,
       <<"from", "Address">>, <<"gas", "Wei">>, <<"gasPrice", "Wei">>,
       <<"maxFeePerGas", "Wei">>, <<"maxPriorityFeePerGas", "Wei">>,
       <<"hash", "HexString">>, <<"input", "HexString">>, <<"nonce", "Integer">>,
       <<"to", "null.or(Address).or(OptionalAddress)">>,
       <<"transactionIndex", "Integer">>, <<"value", "Wei">>,
       <<"accessList", "array.optional">>, <<"chainId", "Integer">>,
       <<"v", "HexValue">>, <<"r", "HexValue">>, <<"s", "HexValue">> >>

Signed4844Transaction ==
    << <<"type", "HexString">>, <<"nonce", "HexString">>, <<"to", "Address">>,
       <<"gas", "Wei">>, <<"value", "Wei">>, <<"input", "string">>,
       <<"maxPriorityFeePerGas", "Wei">>, <<"maxFeePerGas", "Wei">>,
       <<"maxFeePerBlobGas", "Wei">>, <<"accessList", "array">>,
       <<"blobVersionedHashes", "array">>, <<"chainId", "Integer">>,
       <<"yParity", "Integer">>, <<"r", "string">>, <<"s", "string">> >>

TxVariants == {"legacy", "2930", "1559", "4844"}

VariantShape(variant) ==
    CASE variant = "legacy" -> SignedLegacyTransaction
      [] variant = "2930" -> Signed2930Transaction
      [] variant = "1559" -> Signed1559Transaction
      [] OTHER -> Signed4844Transaction

\* The outcome of a parse: the variant that accepted, or the kind of failure
Accepted(variant) == [status |-> "ok", variant |-> variant]
Rejected(status) == [status |-> status, variant |-> "none"]

\* z.discriminatedUnion("type", [SignedLegacyTransaction, Signed2930Transaction,
\* Signed1559Transaction]) (json-rpc.ts:113-117, 382-387): the option is looked up
\* by the value of `type`
TxDiscriminatedUnion(payload, zod) ==
    LET type == payload["type"]
        variant == CASE type = Str(<<"0", "x", "0">>) -> "legacy"
                     [] type = Str(<<"0", "x", "1">>) -> "2930"
                     [] type = Str(<<"0", "x", "2">>) -> "1559"
                     [] OTHER -> "none"
    IN  IF variant = "none" THEN Rejected("issue")
        ELSE LET outcome == ParseObject(VariantShape(variant), payload, zod)
             IN  IF outcome = "ok" THEN Accepted(variant) ELSE Rejected(outcome)

\* EipTransaction of json-rpc.ts:113-118
EipTransactionEarlier(payload, zod) == TxDiscriminatedUnion(payload, zod)

\* EipTransaction of json-rpc.ts:382-389: the discriminated union, .or(
\* Signed4844Transaction); the second option is tried when the first reports issues
EipTransaction(payload, zod) ==
    LET first == TxDiscriminatedUnion(payload, zod)
    IN  IF first.status # "issue" THEN first
        ELSE LET outcome == ParseObject(Signed4844Transaction, payload, zod)
             IN  IF outcome = "ok" THEN Accepted("4844") ELSE Rejected(outcome)

TxFields ==
    {"type", "nonce", "to", "gas", "value", "input", "gasPrice", "chainId", "v", "r",
     "s", "blockHash", "blockNumber", "from", "hash", "transactionIndex",
     "accessList", "yParity", "maxFeePerGas", "maxPriorityFeePerGas",
     "maxFeePerBlobGas", "blobVersionedHashes"}

Hex(digit) == Str(<<"0", "x", digit>>)
Word == Str(<<"a", "b", "c">>)

\* An object with the properties of `shape`, each holding `Hex("1")` unless `special`
\* gives it another value
TxObject(shape, special) ==
    [f \in TxFields |->
        IF f \in DOMAIN special THEN special[f]
        ELSE IF \E i \in 1..Len(shape) : shape[i][1] = f THEN Hex("1")
        ELSE Undefined]

\* Well-formed transactions of the four kinds, and one that carries the fields of
\* both the fee-market and the blob kind
TxTemplates ==
    [legacy |-> TxObject(SignedLegacyTransaction,
                    [type |-> Hex("0"), to |-> Str(AddressChars)]),
     accessList |-> TxObject(Signed2930Transaction,
                    [type |-> Hex("1"), from |-> Str(AddressChars),
                     value |-> Str(<<"1">>), accessList |-> Arr]),
     feeMarket |-> TxObject(Signed1559Transaction,
                    [type |-> Hex("2"), from |-> Str(AddressChars),
                     to |-> Str(AddressChars), accessList |-> Arr]),
     blob |-> TxObject(Signed4844Transaction,
                    [type |-> Hex("3"), to |-> Str(AddressChars), accessList |-> Arr,
                     blobVersionedHashes |-> Arr]),
     feeMarketAndBlob |-> TxObject(Signed1559Transaction \o Signed4844Transaction,
                    [type |-> Hex("2"), from |-> Str(AddressChars),
                     to |-> Str(AddressChars), accessList |-> Arr,
                     blobVersionedHashes |-> Arr])]

\* Values of the `type` tag: missing, the literals, other hex strings, not hex,
\* not a string
TypeTags ==
    {Undefined, Null, Num(2), Word, Hex("0"), Hex("1"), Hex("2"), Hex("3"),
     Str(<<"0", "x", "7", "f">>)}

OverriddenFields ==
    {"gasPrice", "maxFeePerGas", "maxFeePerBlobGas", "blockHash", "value", "to", "nonce"}

\* The payloads: a template, its tag replaced, and at most one more property
\* removed or replaced by a word
TxPayloads ==
    {[TxTemplates[t] EXCEPT !["type"] = tag] :
        t \in DOMAIN TxTemplates, tag \in TypeTags}
    \cup {[TxTemplates[t] EXCEPT !["type"] = tag, ![f] = v] :
            t \in DOMAIN TxTemplates, tag \in TypeTags, f \in OverriddenFields,
            v \in {Undefined, Word}}

InitTx ==
    /\ client \in [cache : {TRUE}, serializer : {"default"}, build : {"index.ts"}]
    /\ storage = EmptyStorage
    /\ call = [c \in Calls |-> NotStarted]
    /\ writeLog = <<>>
    /\ NoKeys
    /\ input \in [schema : {"EipTransaction"}, zod : ZodBuilds, value : TxPayloads]
    /\ output = <<>>

\* The payload is parsed by EipTransaction and by each variant's schema
ParseTransaction ==
    /\ input # <<>> /\ input.schema = "EipTransaction"
    /\ output = <<>>
    /\ output' =
        <<[EipTransaction |-> EipTransaction(input.value, input.zod),
           EipTransactionEarlier |-> EipTransactionEarlier(input.value, input.zod),
           accepts |-> {variant \in TxVariants :
                          ParseObject(VariantShape(variant), input.value, input.zod)
                            = "ok"}]>>
    /\ UNCHANGED <<clientVars, reqA, reqB, keyA, keyB, hitB, optsA, optsB, urlA, urlB,
                   input>>

NextTx == ParseTransaction

SpecTx == InitTx /\ [][NextTx]_vars

(***************************************************************************)
(* Contract source code (contract.ts:102-137).  A SourceCode string is a   *)
(* sequence of atoms: the braces "{" and "}" one by one, a member of a     *)
(* JSON object ("language", "sources", ...) or a piece of other text.      *)
(***************************************************************************)
\* Members of a JSON object: `"language": "Solidity"`, `"sources": {"A.sol":
\* {"content": "c"}}`, `"sources": {"A.sol": {}}`, `"settings": {}`, `"extra": 1`
JsonMembers == {"language", "sources", "sourcesNoContent", "settings", "extra"}

\* Text that is no JSON: Solidity source
FlatText == "contract C {}"

MemberName(member) == IF member = "sourcesNoContent" THEN "sources" ELSE member

\* JSON.parse(text): text is an object `{` members `}`, where the last member of a
\* name wins, or the number 1; anything else throws SyntaxError
JsonParse(text) ==
    IF text = <<"1">> THEN [ok |-> TRUE, type |-> "number", members |-> {}]
    ELSE IF /\ Len(text) >= 2 /\ text[1] = "{" /\ text[Len(text)] = "}"
            /\ \A i \in 2..(Len(text) - 1) : text[i] \in JsonMembers
    THEN [ok |-> TRUE, type |-> "object",
          members |-> {text[i] : i \in {k \in 2..(Len(text) - 1) :
                        \A j \in (k + 1)..(Len(text) - 1) :
                            MemberName(text[j]) # MemberName(text[k])}}]
    ELSE [ok |-> FALSE, type |-> "none", members |-> {}]

\* A substring that leaves the string as it is.
substringNone(value) == value

\* value.substring(1, value.length - 1) (contract.ts:112)
substring(value) == SubSeq(value, 2, Len(value) - 1)

\* What a SourceCode schema yields: a parsed document, the string, or issues
SourceDocument(members) ==
    [kind |-> "document", text |-> <<>>, language |-> "Solidity",
     sources |-> <<[name |-> "A.sol", content |-> "c"]>>,
     settings |-> "settings" \in members, jsonParsed |-> TRUE]
SourceString(text, jsonParsed) ==
    [kind |-> "string", text |-> text, language |-> "", sources |-> <<>>,
     settings |-> FALSE, jsonParsed |-> jsonParsed]
SourceIssue(jsonParsed) ==
    [kind |-> "issue", text |-> <<>>, language |-> "", sources |-> <<>>,
     settings |-> FALSE, jsonParsed |-> jsonParsed]

\* MultiFileSourceCode (contract.ts:102-133): the transform, then the piped
\* z.object({language, sources, settings})
MultiFileSourceCode(v) ==
    IF v.t # "string" THEN SourceIssue(FALSE)
    ELSE IF v.s = <<>> \/ v.s[1] # "{" \/ v.s[Len(v.s)] # "}" THEN SourceIssue(FALSE)
    ELSE LET parsed == JsonParse(substring(v.s))
         IN  IF ~parsed.ok THEN SourceIssue(TRUE)
             ELSE IF /\ parsed.type = "object"
                     /\ "language" \in parsed.members
                     /\ "sources" \in parsed.members
                  THEN SourceDocument(parsed.members)
                  ELSE SourceIssue(TRUE)

\* SourceCode: MultiFileSourceCode.or(z.string()) (contract.ts:137)
SourceCode(v) ==
    LET first == MultiFileSourceCode(v)
    IN  IF first.kind = "document" THEN first
        ELSE IF v.t = "string" THEN SourceString(v.s, first.jsonParsed)
        ELSE SourceIssue(first.jsonParsed)

Braces(brace, n) == [i \in 1..n |-> brace]

SourceBodies ==
    {<<>>, <<FlatText>>, <<"1">>, <<"language", "sources">>, <<"sources", "language">>,
     <<"language", "sources", "settings">>, <<"language", "sources", "extra">>,
     <<"language">>, <<"sources">>, <<"language", "sourcesNoContent">>,
     <<"language", "sources", "sourcesNoContent">>, <<"language", FlatText>>}

\* SourceCode values: up to MaxBraces braces around a body, and values that are
\* not strings
SourceCodeInputs ==
    {Str(Braces("{", m) \o body \o Braces("}", n)) :
        m \in 0..MaxBraces, n \in 0..MaxBraces, body \in SourceBodies}
    \cup {Null, Undefined, Num(1)}

InitSource ==
    /\ client \in [cache : {TRUE}, serializer : {"default"}, build : {"index.ts"}]
    /\ storage = EmptyStorage
    /\ call = [c \in Calls |-> NotStarted]
    /\ writeLog = <<>>
    /\ NoKeys
    /\ input \in [schema : {"SourceCode"}, zod : {"bigint-issue"},
                  value : SourceCodeInputs]
    /\ output = <<>>

\* The SourceCode property of a verified contract is parsed
ParseSourceCode ==
    /\ input # <<>> /\ input.schema = "SourceCode"
    /\ output = <<>>
    /\ output' = <<SourceCode(input.value)>>
    /\ UNCHANGED <<clientVars, reqA, reqB, keyA, keyB, hitB, optsA, optsB, urlA, urlB,
                   input>>

NextSource == ParseSourceCode

SpecSource == InitSource /\ [][NextSource]_vars

(***************************************************************************)
(* Contract source response (contract.ts:97-100, 135-193).  An ABI string  *)
(* is a sequence of atoms: "[" and "]" around ABI items, "{" and "}", or   *)
(* text that is no JSON.                                                   *)
(***************************************************************************)
NotVerified == <<"Contract source code not verified">>

\* Items of an ABI array: one that AbiItem accepts and one that it does not
AbiItems == {"function", "bogus"}

\* JSON.parse(str) of an ABI string: an array of items, or what JsonParse reads
AbiJsonParse(text) ==
    IF /\ Len(text) >= 2 /\ text[1] = "[" /\ text[Len(text)] = "]"
       /\ \A i \in 2..(Len(text) - 1) : text[i] \in AbiItems
    THEN [ok |-> TRUE, type |-> "array",
          members |-> {text[i] : i \in 2..(Len(text) - 1)}]
    ELSE JsonParse(text)

\* AbiStr = z.string().transform(str => JSON.parse(str)).pipe(z.array(AbiItem))
\* (contract.ts:97-100): the exception of JSON.parse is not caught
AbiStr(v) ==
    IF v.t # "string" THEN "issue"
    ELSE LET parsed == AbiJsonParse(v.s)
         IN  IF ~parsed.ok THEN "throw"
             ELSE IF parsed.type = "array" /\ "bogus" \notin parsed.members THEN "ok"
             ELSE "issue"

\* EnumBoolean = z.enum(["0", "1"]) (core.ts:72)
EnumBoolean(v) == IF v \in {Str(<<"0">>), Str(<<"1">>)} THEN "ok" ELSE "issue"

\* z.coerce.number() (contract.ts:141): Number(input) must not be NaN
CoerceNumber(v) ==
    CASE v.t = "string" -> IF StringToBigInt(v.s).ok THEN "ok" ELSE "issue"
      [] v.t = "undefined" -> "issue"
      [] OTHER -> "ok"

ContractFields ==
    {"SourceCode", "ABI", "ContractName", "CompilerVersion", "OptimizationUsed", "Runs",
     "ConstructorArguments", "EVMVersion", "Library", "LicenseType", "Proxy",
     "Implementation", "SwarmSource"}

\* The outcome of one property of VerifiedContractSourceCode (contract.ts:136-150)
CheckContract(field, v) ==
    CASE field = "SourceCode" -> IF SourceCode(v).kind = "issue" THEN "issue" ELSE "ok"
      [] field = "ABI" -> AbiStr(v)
      [] field \in {"OptimizationUsed", "Proxy"} -> EnumBoolean(v)
      [] field = "Runs" -> CoerceNumber(v)
      [] OTHER -> String(v)

\* What ContractSourceCodeResponse yields.  `verifiedApplied` and `abiParsed` record
\* whether the verified schema and JSON.parse of the ABI were run.
ContractOutcome(kind, verifiedApplied, abiParsed) ==
    [kind |-> kind, verifiedApplied |-> verifiedApplied, abiParsed |-> abiParsed]

\* UnverifiedContract (contract.ts:184-189): {ABI: string} refined to the sentinel
UnverifiedContract(record) ==
    IF record["ABI"] = Str(NotVerified) THEN "ok" ELSE "issue"

\* VerifiedContractSourceCode (contract.ts:135-181)
VerifiedContractSourceCode(record) ==
    LET outcomes == {CheckContract(f, record[f]) : f \in ContractFields}
    IN  IF "throw" \in outcomes THEN "throw"
        ELSE IF "issue" \in outcomes THEN "issue" ELSE "ok"

\* A union that tries the verified schema first.
ContractSourceCodeResponseVerifiedFirst(record) ==
    LET verified == VerifiedContractSourceCode(record)
        abiParsed == record["ABI"].t = "string"
    IN  IF verified = "ok" THEN ContractOutcome("verified", TRUE, abiParsed)
        ELSE IF verified = "throw" THEN ContractOutcome("throw", TRUE, abiParsed)
        ELSE IF UnverifiedContract(record) = "ok"
             THEN ContractOutcome("unverified", TRUE, abiParsed)
             ELSE ContractOutcome("issue", TRUE, abiParsed)

\* ContractSourceCodeResponse = UnverifiedContract.or(VerifiedContractSourceCode)
\* (contract.ts:192): the first option that parses wins
ContractSourceCodeResponse(record) ==
    IF UnverifiedContract(record) = "ok" THEN ContractOutcome("unverified", FALSE, FALSE)
    ELSE LET verified == VerifiedContractSourceCode(record)
         IN  ContractOutcome(IF verified = "ok" THEN "verified" ELSE verified,
                             TRUE, record["ABI"].t = "string")

\* A record of a verified contract, with the given values for some properties
ContractObject(special) ==
    [f \in ContractFields |->
        IF f \in DOMAIN special THEN special[f]
        ELSE IF f \in {"OptimizationUsed", "Proxy"} THEN Str(<<"1">>)
        ELSE IF f = "Runs" THEN Str(<<"2", "0", "0">>)
        ELSE Str(<<>>)]

AbiValues ==
    {Str(NotVerified), Str(<<"[", "]">>), Str(<<"[", "function", "]">>),
     Str(<<"[", "bogus", "]">>), Str(<<"{", "}">>), Str(<<"abc">>), Str(<<>>),
     Null, Undefined}

ContractRecords ==
    {ContractObject([ABI |-> abi, SourceCode |-> source, ContractName |-> name,
                     OptimizationUsed |-> optimization, Runs |-> runs]) :
        abi \in AbiValues,
        source \in {Str(<<>>), Str(<<FlatText>>),
                    Str(<<"{", "{", "language", "sources", "}", "}">>), Undefined},
        name \in {Str(<<"C">>), Undefined},
        optimization \in {Str(<<"1">>), Str(<<>>)},
        runs \in {Str(<<"2", "0", "0">>), Str(<<>>), Word}}

InitContract ==
    /\ client \in [cache : {TRUE}, serializer : {"default"}, build : {"index.ts"}]
    /\ storage = EmptyStorage
    /\ call = [c \in Calls |-> NotStarted]
    /\ writeLog = <<>>
    /\ NoKeys
    /\ input \in [schema : {"ContractSourceCodeResponse"}, zod : {"bigint-issue"},
                  value : ContractRecords]
    /\ output = <<>>

\* One record of the getsourcecode result is parsed
ParseContractSourceCode ==
    /\ input # <<>> /\ input.schema = "ContractSourceCodeResponse"
    /\ output = <<>>
    /\ output' = <<ContractSourceCodeResponse(input.value)>>
    /\ UNCHANGED <<clientVars, reqA, reqB, keyA, keyB, hitB, optsA, optsB, urlA, urlB,
                   input>>

NextContract == ParseContractSourceCode

SpecContract == InitContract /\ [][NextContract]_vars

(***************************************************************************)
(* Primitive codecs on their own (core.ts)                                 *)
(***************************************************************************)
\* What a codec yields: a value, or a zod issue, or an exception
Parsed(value) == [status |-> "ok", value |-> value]
Issue == [status |-> "issue", value |-> Undefined]
Thrown == [status |-> "throw", value |-> Undefined]

\* HexString.safeParse (core.ts:51): the refinement keeps the string as it is
HexStringParse(v) == IF HexString(v) = "ok" THEN Parsed(v) ELSE Issue

\* HexValue.safeParse (core.ts:42-45): the same refinement, then "0x" becomes
\* undefined
HexValue(v) ==
    IF HexString(v) # "ok" THEN Issue
    ELSE IF Len(v.s) = 2 THEN Parsed(Undefined) ELSE Parsed(v)

HexAlphabet == {"0", "x", "X", "a", "G"}

HexInputs ==
    {Str(chars) : chars \in UNION {[1..n -> HexAlphabet] : n \in 0..MaxHexLen}}

\* A string is handed to HexValue and to HexString
ParseHex ==
    /\ input # <<>> /\ input.schema = "Hex"
    /\ output = <<>>
    /\ output' = <<[HexValue |-> HexValue(input.value),
                    HexString |-> HexStringParse(input.value)]>>
    /\ UNCHANGED <<clientVars, reqA, reqB, keyA, keyB, hitB, optsA, optsB, urlA, urlB,
                   input>>

BigIntValue(n) == [t |-> "bigint", s |-> <<>>, n |-> n]

\* Wei.safeParse (core.ts:67): BigInt(input) of whatever the input is
WeiParse(v, zod) ==
    LET status == Wei(v, zod)
    IN  IF status = "issue" THEN Issue
        ELSE IF status = "throw" THEN Thrown
        ELSE CASE v.t = "string" -> Parsed(BigIntValue(StringToBigInt(v.s).n))
               [] v.t = "number" -> Parsed(BigIntValue(v.n))
               [] OTHER -> Parsed(BigIntValue(0))

WeiAlphabet == {"0", "1", "-", " ", "x"}

WeiInputs ==
    {Str(chars) : chars \in UNION {[1..n -> WeiAlphabet] : n \in 0..MaxWeiLen}}
    \cup {Num(5), Num(0 - 5), Null, Undefined, Arr}

\* A value is handed to Wei
ParseWei ==
    /\ input # <<>> /\ input.schema = "Wei"
    /\ output = <<>>
    /\ output' = <<WeiParse(input.value, input.zod)>>
    /\ UNCHANGED <<clientVars, reqA, reqB, keyA, keyB, hitB, optsA, optsB, urlA, urlB,
                   input>>

\* A big integer too wide for the model's numbers: a sign and decimal digits
\* without leading zeros
BigDigits(negative, digits) == [negative |-> negative, digits |-> digits]

RECURSIVE StripLeadingZeros(_)
StripLeadingZeros(digits) ==
    IF Len(digits) > 1 /\ Head(digits) = "0" THEN StripLeadingZeros(Tail(digits))
    ELSE IF digits = <<>> THEN <<"0">> ELSE digits

\* BigInt(`${sign}${digits}`): -0 is 0
BigIntOfDigits(negative, digits) ==
    LET canonical == StripLeadingZeros(digits)
    IN  BigDigits(negative /\ canonical # <<"0">>, canonical)

\* `${BigInt(digits) + 1n}`
RECURSIVE IncrementDigits(_)
IncrementDigits(digits) ==
    IF digits = <<>> THEN <<"1">>
    ELSE LET front == SubSeq(digits, 1, Len(digits) - 1)
             last == digits[Len(digits)]
         IN  IF last = "9" THEN IncrementDigits(front) \o <<"0">>
             ELSE front \o <<Digit(HexDigitValue(last) + 1)>>

PlusOne(digits) == StripLeadingZeros(IncrementDigits(digits))

RECURSIVE TrimTrailingZeros(_)
TrimTrailingZeros(digits) ==
    IF digits # <<>> /\ digits[Len(digits)] = "0"
    THEN TrimTrailingZeros(SubSeq(digits, 1, Len(digits) - 1)) ELSE digits

Zeros(n) == [i \in 1..n |-> "0"]

padStart(text, length) == Zeros(length - Len(text)) \o text
padEnd(text, length) == text \o Zeros(length - Len(text))

EtherDecimals == 18

\* parseEther(ether) = parseUnits(ether, 18) of viem: the fraction loses its
\* trailing zeros, is rounded to 18 digits when it is longer and padded when it is
\* shorter; the result is BigInt(sign + integer + fraction)
parseEther(chars) ==
    LET negative == chars # <<>> /\ chars[1] = "-"
        unsigned == IF negative THEN Tail(chars) ELSE chars
        dot == DotAt(unsigned)
        integer == IF dot = 0 THEN unsigned ELSE SubSeq(unsigned, 1, dot - 1)
        fraction == TrimTrailingZeros(
                        IF dot = 0 THEN <<"0">>
                        ELSE SubSeq(unsigned, dot + 1, Len(unsigned)))
    IN  IF Len(fraction) <= EtherDecimals
        THEN BigIntOfDigits(negative, integer \o padEnd(fraction, EtherDecimals))
        ELSE LET left == SubSeq(fraction, 1, EtherDecimals - 1)
                 unit == HexDigitValue(fraction[EtherDecimals])
                 right == SubSeq(fraction, EtherDecimals + 1, Len(fraction))
                 rounded == IF HexDigitValue(right[1]) >= 5 THEN unit + 1 ELSE unit
                 roundedFraction ==
                    IF rounded > 9 THEN padStart(PlusOne(left) \o <<"0">>, Len(left) + 1)
                    ELSE left \o <<Digit(rounded)>>
                 carried == Len(roundedFraction) > EtherDecimals
             IN  BigIntOfDigits(negative,
                    (IF carried THEN PlusOne(integer) ELSE integer)
                    \o SubSeq(IF carried THEN Tail(roundedFraction) ELSE roundedFraction,
                              1, EtherDecimals))

\* Ether.safeParse (core.ts:26): z.string(), then the transform; the exception
\* parseEther throws for a string that is no decimal number is not caught
EtherParse(v) ==
    IF v.t # "string" THEN Issue
    ELSE IF ~IsDecimalNumber(v.s) THEN Thrown
    ELSE Parsed(parseEther(v.s))

\* Decimal strings: sign, integer part, "." and a fraction of zeros and a tail; and
\* values that are no decimal strings
EtherInputs ==
    {Str(sign \o integer \o <<".">> \o Zeros(k) \o tail) :
        sign \in {<<>>, <<"-">>},
        integer \in {<<>>, <<"0">>, <<"1">>, <<"1", "9">>},
        k \in 0..MaxFractionZeros,
        tail \in {<<>>, <<"1">>, <<"5">>, <<"4", "9">>, <<"9", "5">>, <<"1", "0">>}}
    \cup {Str(sign \o integer) :
            sign \in {<<>>, <<"-">>}, integer \in {<<>>, <<"0">>, <<"1">>, <<"1", "9">>}}
    \cup {Str(<<"9">> \o <<".">> \o [i \in 1..EtherDecimals |-> "9"] \o <<"5">>),
          Str(<<"1", ".", "0">>), Str(<<"0", "x", "1">>), Str(<<"1", ".", "2", ".", "3">>),
          Str(<<" ", "1">>), Null, Undefined, Num(1)}

\* A value is handed to Ether
ParseEther ==
    /\ input # <<>> /\ input.schema = "Ether"
    /\ output = <<>>
    /\ output' = <<EtherParse(input.value)>>
    /\ UNCHANGED <<clientVars, reqA, reqB, keyA, keyB, hitB, optsA, optsB, urlA, urlB,
                   input>>

\* Number.prototype.toString(16) / BigInt.prototype.toString(16) of a natural
HexChar(d) ==
    <<"0", "1", "2", "3", "4", "5", "6", "7", "8", "9", "a", "b", "c", "d", "e", "f">>[d + 1]

RECURSIVE toString16(_)
toString16(n) ==
    IF n < 16 THEN <<HexChar(n)>> ELSE toString16(n \div 16) \o <<HexChar(n % 16)>>

\* `0x${n.toString(16)}`
HexTemplate(n) == Str(<<"0", "x">> \o toString16(n))

\* BlockTag (core.ts:74-79) and Tag (index.ts:266)
BlockTag == {<<"earliest">>, <<"finalized">>, <<"safe">>, <<"latest">>}
Tag == {<<"earliest">>, <<"pending">>, <<"latest">>}

\* Integer.min(0).parse (core.ts:62): Number(value) has to be an integer that is
\* not negative
IntegerMin0(v) ==
    CASE v.t = "number" -> IF v.n >= 0 THEN Parsed(v) ELSE Issue
      [] v.t = "string" ->
            IF StringToBigInt(v.s).ok /\ StringToBigInt(v.s).n >= 0
            THEN Parsed(Num(StringToBigInt(v.s).n)) ELSE Issue
      [] v.t = "null" -> Parsed(Num(0))
      [] OTHER -> Issue

\* ensureBlockIdentifier (core.ts:97-100): BlockTag.or(Integer.min(0)) with the
\* default "latest"; a number becomes its hex template, a tag stays as it is
ensureBlockIdentifier(block) ==
    IF block.t = "undefined" THEN Parsed(Str(<<"latest">>))
    ELSE IF block.t = "string" /\ block.s \in BlockTag THEN Parsed(block)
    ELSE IF IntegerMin0(block).status = "ok"
         THEN Parsed(HexTemplate(IntegerMin0(block).value.n))
    ELSE Issue

\* Tag.default("latest").parse(tag)
TagDefaultLatest(tag) ==
    IF tag.t = "undefined" THEN Parsed(Str(<<"latest">>))
    ELSE IF tag.t = "string" /\ tag.s \in Tag THEN Parsed(tag)
    ELSE Issue

\* The parameters encodeQueryParams puts into the URL (index.ts:952-964): those
\* whose value is neither undefined nor null
searchParams(params) == SelectSeq(params, LAMBDA e : IsDefined(e.value))

\* value ? `0x${value.toString(16)}` : undefined, for a value CallParams parsed
\* (Wei.optional(): undefined or a bigint)
HexOrUndefined(v) == IF v.t = "number" /\ v.n # 0 THEN HexTemplate(v.n) ELSE Undefined

\* Wei.optional() of CallParams on a caller's bigint
WeiOptional(v) ==
    IF v.t = "undefined" THEN Parsed(v)
    ELSE IF v.t = "number" THEN Parsed(v)
    ELSE Issue

ToAddress == Str(<<"0xde0b295669a9fd93d5f28d9ec85e40f4cb697bae">>)

\* getUncleBlock (index.ts:692-701)
getUncleBlock(args) ==
    LET idx == IntegerMin0(args.index)
        tag == ensureBlockIdentifier(args.block)
    IN  IF idx.status # "ok" \/ tag.status # "ok" THEN Issue
        ELSE Parsed(searchParams(<<
                Entry("module", Str(<<"proxy">>)),
                Entry("action", Str(<<"eth_getUncleByBlockNumberAndIndex">>)),
                Entry("tag", tag.value),
                Entry("index", HexTemplate(idx.value.n)) >>))

\* getTransaction by block and index: GetTransactionParams.parse, then the
\* request with the block identifier and the index as hex
getTransaction(args) ==
    LET idx == IntegerMin0(args.index)
        tag == ensureBlockIdentifier(args.block)
    IN  IF args.block.t = "undefined" \/ idx.status # "ok" \/ tag.status # "ok" THEN Issue
        ELSE Parsed(searchParams(<<
                Entry("module", Str(<<"proxy">>)),
                Entry("action", Str(<<"eth_getTransactionByBlockNumberAndIndex">>)),
                Entry("tag", tag.value),
                Entry("index", HexTemplate(idx.value.n)) >>))

\* call (index.ts:781-793): value, gas and gasPrice as hex templates, the tag, then
\* the rest of the parsed parameters
callEthCall(args) ==
    LET tag == TagDefaultLatest(args.tag)
    IN  IF \E f \in {"value", "gas", "gasPrice"} : WeiOptional(args[f]).status # "ok"
        THEN Issue
        ELSE IF tag.status # "ok" THEN Issue
        ELSE Parsed(searchParams(<<
                Entry("module", Str(<<"proxy">>)),
                Entry("action", Str(<<"eth_call">>)),
                Entry("value", HexOrUndefined(args.value)),
                Entry("gas", HexOrUndefined(args.gas)),
                Entry("gasPrice", HexOrUndefined(args.gasPrice)),
                Entry("tag", tag.value),
                Entry("to", ToAddress) >>))

\* estimateGas (index.ts:831-843)
estimateGas(args) ==
    IF \E f \in {"value", "gas", "gasPrice"} : WeiOptional(args[f]).status # "ok"
    THEN Issue
    ELSE Parsed(searchParams(<<
            Entry("module", Str(<<"proxy">>)),
            Entry("action", Str(<<"eth_estimateGas">>)),
            Entry("value", HexOrUndefined(args.value)),
            Entry("gas", HexOrUndefined(args.gas)),
            Entry("gasPrice", HexOrUndefined(args.gasPrice)),
            Entry("to", ToAddress) >>))

WireMethod(args) ==
    CASE args.method = "getUncleBlock" -> getUncleBlock(args)
      [] args.method = "getTransaction" -> getTransaction(args)
      [] args.method = "call" -> callEthCall(args)
      [] args.method = "estimateGas" -> estimateGas(args)

WireBlocks ==
    {Undefined, Str(<<"latest">>), Str(<<"earliest">>), Str(<<"pending">>), Str(<<"newest">>),
     Num(0), Num(10), Num(255), Num(4096), Num(0 - 1)}
WireIndexes == {Num(0), Num(1), Num(26), Num(0 - 1)}
WireAmounts == {Undefined, Num(0), Num(1), Num(21000)}

\* The arguments of the calls: a block and an index for the two lookups by index,
\* amounts and a tag for call, amounts for estimateGas
WireCalls ==
    [method : {"getUncleBlock", "getTransaction"}, block : WireBlocks, index : WireIndexes,
     tag : {Undefined}, value : {Undefined}, gas : {Undefined}, gasPrice : {Undefined}]
    \cup [method : {"call"}, block : {Undefined}, index : {Undefined},
          tag : {Undefined, Str(<<"pending">>), Str(<<"safe">>)},
          value : WireAmounts, gas : WireAmounts, gasPrice : WireAmounts]
    \cup [method : {"estimateGas"}, block : {Undefined}, index : {Undefined},
          tag : {Undefined}, value : WireAmounts, gas : WireAmounts, gasPrice : WireAmounts]

\* A JSON-RPC method builds its request
BuildRequest ==
    /\ input # <<>> /\ input.schema = "Wire"
    /\ output = <<>>
    /\ output' = <<WireMethod(input.value)>>
    /\ UNCHANGED <<clientVars, reqA, reqB, keyA, keyB, hitB, optsA, optsB, urlA, urlB,
                   input>>

\* Address.safeParse (core.ts:7-19): z.string(), then getAddress; its
\* InvalidAddressError becomes an issue
AddressSafeParse(v) ==
    IF v.t # "string" THEN Issue
    ELSE IF getAddress(v.s).ok THEN Parsed(Str(getAddress(v.s).value))
    ELSE Issue

AddressAlphabet == {"a", "A", "1", "g"}

\* `length` characters that repeat a pattern
Repeat(pattern, length) == [i \in 1..length |-> pattern[((i - 1) % Len(pattern)) + 1]]

AddressPatterns == UNION {[1..n -> AddressAlphabet] : n \in 1..MaxPattern}

\* Strings of 0x and 40 characters, and strings of another length or prefix
AddressStrings ==
    {Str(<<"0", "x">> \o Repeat(p, AddressDigits)) : p \in AddressPatterns}
    \cup {Str(<<"0", "x">> \o Repeat(<<"a">>, AddressDigits - 1)),
          Str(<<"0", "x">> \o Repeat(<<"A">>, AddressDigits + 1)),
          Str(<<"0", "X">> \o Repeat(<<"a">>, AddressDigits)),
          Str(Repeat(<<"a">>, AddressDigits)), Str(<<>>)}

\* Two values handed to Address one after the other
AddressInputs ==
    [first : AddressStrings \cup {Null, Undefined, Num(1)}, second : AddressStrings]

AddressSchema == input # <<>> /\ input.schema = "Address"

\* The first value is handed to Address
ParseAddress ==
    /\ AddressSchema
    /\ output = <<>>
    /\ output' = <<AddressSafeParse(input.value.first)>>
    /\ UNCHANGED <<clientVars, reqA, reqB, keyA, keyB, hitB, optsA, optsB, urlA, urlB,
                   input>>

\* The second value is handed to Address
ParseSecondAddress ==
    /\ AddressSchema
    /\ Len(output) = 1
    /\ output' = output \o <<AddressSafeParse(input.value.second)>>
    /\ UNCHANGED <<clientVars, reqA, reqB, keyA, keyB, hitB, optsA, optsB, urlA, urlB,
                   input>>

\* The address the first parse returned is handed to Address again
ParseAddressAgain ==
    /\ AddressSchema
    /\ Len(output) = 2 /\ output[1].status = "ok"
    /\ output' = output \o <<AddressSafeParse(output[1].value)>>
    /\ UNCHANGED <<clientVars, reqA, reqB, keyA, keyB, hitB, optsA, optsB, urlA, urlB,
                   input>>

\* EnumBoolean.safeParse (core.ts:72): "0" or "1", transformed to value === "1"
EnumBooleanParse(v) ==
    IF EnumBoolean(v) = "ok" THEN Parsed(v = Str(<<"1">>)) ELSE Issue

\* OptionalString.safeParse (core.ts:31): a string, "" transformed to undefined
OptionalStringParse(v) ==
    IF v.t # "string" THEN Issue
    ELSE IF v.s = <<>> THEN Parsed(Undefined) ELSE Parsed(v)

\* A ContractExecutionStatus whose transform tests the isError string itself.
ContractExecutionStatusRawFlag(payload) ==
    LET isError == EnumBooleanParse(payload.isError)
        errDescription == OptionalStringParse(payload.errDescription)
    IN  IF isError.status # "ok" \/ errDescription.status # "ok" THEN Issue
        ELSE IF payload.isError.s # <<>>
             THEN Parsed(<<Entry("error", TRUE), Entry("description", errDescription.value)>>)
        ELSE Parsed(<<Entry("error", FALSE)>>)

\* ContractExecutionStatus (transaction.ts:4-14): the object of isError and
\* errDescription, transformed to { error: true, description } when isError is
\* true and to { error: false } otherwise
ContractExecutionStatus(payload) ==
    LET isError == EnumBooleanParse(payload.isError)
        errDescription == OptionalStringParse(payload.errDescription)
    IN  IF isError.status # "ok" \/ errDescription.status # "ok" THEN Issue
        ELSE IF isError.value
             THEN Parsed(<<Entry("error", TRUE), Entry("description", errDescription.value)>>)
        ELSE Parsed(<<Entry("error", FALSE)>>)

StatusPayloads ==
    [isError : {Str(<<"0">>), Str(<<"1">>), Str(<<"2">>), Str(<<>>), Str(<<"t", "r", "u", "e">>),
                Num(1), Num(0), Null, Undefined},
     errDescription : {Str(<<>>), Str(<<"Bad jump destination">>), Str(<<"Reverted">>),
                       Null, Undefined}]

\* A payload is handed to ContractExecutionStatus
ParseStatus ==
    /\ input # <<>> /\ input.schema = "Status"
    /\ output = <<>>
    /\ output' = <<ContractExecutionStatus(input.value)>>
    /\ UNCHANGED <<clientVars, reqA, reqB, keyA, keyB, hitB, optsA, optsB, urlA, urlB,
                   input>>

\* Operator = z.enum(["and", "or"]) (logs.ts:4)
Operator(v) == IF v \in {Str(<<"and">>), Str(<<"or">>)} THEN "ok" ELSE "issue"

\* The three objects of GetLogsInput (logs.ts:7-24), in the order of the union,
\* each a list of <<key, validator>>
GetLogsOptions ==
    << << <<"address", "string?">>, <<"topic0", "HexString">>,
          <<"topic1", "HexString">>, <<"topic0_1_opr", "Operator">> >>,
       << <<"topic0", "HexString">>, <<"address", "string?">> >>,
       << <<"address", "string">> >> >>

LogsCheck(validator, v) ==
    CASE validator = "string" -> String(v)
      [] validator = "string?" -> Optional(v, String(v))
      [] validator = "HexString" -> HexString(v)
      [] validator = "Operator" -> Operator(v)

\* z.object(shape).safeParse(filter): every key of the shape is validated; the
\* output has the keys of the shape that hold a value and no other key
LogsObjectValid(shape, filter) ==
    \A i \in 1..Len(shape) : LogsCheck(shape[i][2], filter[shape[i][1]]) = "ok"

LogsObjectOutput(shape, filter) ==
    LET entries == [i \in 1..Len(shape) |-> Entry(shape[i][1], filter[shape[i][1]])]
    IN  SelectSeq(entries, LAMBDA e : e.value.t # "undefined")

\* GetLogsInput.safeParse: the output of the first object of the union that
\* accepts the filter
GetLogsInput(filter) ==
    IF \E i \in 1..Len(GetLogsOptions) : LogsObjectValid(GetLogsOptions[i], filter)
    THEN LET first == CHOOSE i \in 1..Len(GetLogsOptions) :
                        /\ LogsObjectValid(GetLogsOptions[i], filter)
                        /\ \A j \in 1..(i - 1) : ~LogsObjectValid(GetLogsOptions[j], filter)
         IN  Parsed(LogsObjectOutput(GetLogsOptions[first], filter))
    ELSE Issue

\* getLogs (index.ts:633-641) with the default options: module, action and the
\* parsed filter go into the request
getLogsRequest(filter) ==
    LET parsed == GetLogsInput(filter)
    IN  IF parsed.status # "ok" THEN Issue
        ELSE Parsed(searchParams(<<Entry("module", Str(<<"logs">>)),
                                   Entry("action", Str(<<"getLogs">>))>> \o parsed.value))

LogsTopics == {Undefined, Str(<<"0", "x", "a", "b">>), Str(<<"0", "x", "c", "d">>), Str(<<"z">>)}

\* Filters: a key the caller leaves out holds undefined
LogsFilters ==
    [address : {Undefined, Str(<<"0", "x", "1">>), Num(1)},
     topic0 : LogsTopics, topic1 : LogsTopics,
     topic0_1_opr : {Undefined, Str(<<"and">>), Str(<<"or">>), Str(<<"xor">>)}]

\* getLogs builds its request from a filter
BuildLogsRequest ==
    /\ input # <<>> /\ input.schema = "Logs"
    /\ output = <<>>
    /\ output' = <<getLogsRequest(input.value)>>
    /\ UNCHANGED <<clientVars, reqA, reqB, keyA, keyB, hitB, optsA, optsB, urlA, urlB,
                   input>>

CodecInputs ==
    [schema : {"Hex"}, zod : {"bigint-issue"}, value : HexInputs]
    \cup [schema : {"Ether"}, zod : {"bigint-issue"}, value : EtherInputs]
    \cup [schema : {"Wei"}, zod : ZodBuilds, value : WeiInputs]
    \cup [schema : {"Wire"}, zod : {"bigint-issue"}, value : WireCalls]
    \cup [schema : {"Address"}, zod : {"bigint-issue"}, value : AddressInputs]
    \cup [schema : {"Status"}, zod : {"bigint-issue"}, value : StatusPayloads]
    \cup [schema : {"Logs"}, zod : {"bigint-issue"}, value : LogsFilters]

InitCodec ==
    /\ client \in [cache : {TRUE}, serializer : {"default"}, build : {"index.ts"}]
    /\ storage = EmptyStorage
    /\ call = [c \in Calls |-> NotStarted]
    /\ writeLog = <<>>
    /\ NoKeys
    /\ input \in CodecInputs
    /\ output = <<>>

NextCodec ==
    \/ ParseHex
    \/ ParseWei
    \/ ParseEther
    \/ BuildRequest
    \/ ParseAddress
    \/ ParseSecondAddress
    \/ ParseAddressAgain
    \/ ParseStatus
    \/ BuildLogsRequest

SpecCodec == InitCodec /\ [][NextCodec]_vars

(***************************************************************************)
(* Properties                                                              *)
(***************************************************************************)
EntrySet(params) == {params[i] : i \in 1..Len(params)}

\* The same name-to-value entries, whatever the insertion order
SameEntries(p, q) == EntrySet(p) = EntrySet(q)

DefinedEntries(params) == {e \in EntrySet(params) : IsDefined(e.value)}

\* c2 was called after c1 had completed
Sequential(c1, c2) == c1 \in call[c2].after

Returned(c) == Done(c) /\ call[c].out.kind = "return"
Threw(c) == Done(c) /\ call[c].out.kind = "throw"

\* fetch returned `v` to the unwrapper of call c
FetchReturned(c) == Done(c) /\ call[c].fetched.kind = "return"

WritesOf(key) == {i \in 1..Len(writeLog) : writeLog[i].key = key}

LastWrite(key) ==
    writeLog[CHOOSE i \in WritesOf(key) : \A j \in WritesOf(key) : j <= i].value

\* C1: on a client with a fresh cache, two sequential calls with the same
\* parameters that both return invoke the transport exactly once between them,
\* return identical payloads and results, and leave exactly one entry in the storage.
C1_SequentialCallsFetchOnce ==
    \A c1, c2 \in Calls :
        ( /\ client.cache
          /\ Returned(c1) /\ Returned(c2)
          /\ Sequential(c1, c2)
          /\ call[c1].keysAtStart = {}
          /\ call[c1].via = call[c2].via
          /\ SameEntries(call[c1].params, call[c2].params)
          /\ \A d \in Calls \ {c1, c2} : call[d].pc = "idle" )
        => /\ call[c1].invoked + call[c2].invoked = 1
           /\ call[c1].fetched.value = call[c2].fetched.value
           /\ call[c1].out = call[c2].out
           /\ Cardinality(DOMAIN storage) = 1

\* C2: a call that ends in failure has written nothing to the storage, and a later
\* call with the same parameters invokes the transport again.
C2_FailedCallLeavesCacheUnchanged ==
    /\ \A c \in Calls : Threw(c) => call[c].writes = 0
    /\ \A c1, c2 \in Calls :
        ( /\ client.cache
          /\ Threw(c1) /\ Done(c2)
          /\ Sequential(c1, c2)
          /\ call[c2].valid
          /\ call[c1].key = call[c2].key )
        => call[c2].invoked = 1

\* C3: callApi yields X for {status: "1", message, result: X} and, for
\* {status: "0", message, result: R}, returns no value and throws an error whose
\* message is the server's result string R.
C3_RestEnvelopeUnwrap ==
    \A c \in Calls :
        (FetchReturned(c) /\ call[c].via = "callApi") =>
            LET v == call[c].fetched.value
            IN  /\ (v.type = "object" /\ v.status = "1" /\ v.message # Absent)
                    => call[c].out = Return(AsValue(v.result))
                /\ (v.type = "object" /\ v.status = "0" /\ v.message # Absent)
                    => /\ call[c].out.kind = "throw"
                       /\ call[c].out.message = v.result

\* C4: callJsonRpc, given a JSON-RPC 2.0 payload with error {code, message} and no
\* result, throws an error carrying the server's message and the numeric code, and
\* never returns a value.
C4_JsonRpcErrorUnwrap ==
    \A c \in Calls :
        (FetchReturned(c) /\ call[c].via = "callJsonRpc") =>
            LET v == call[c].fetched.value
            IN  (v.type = "object" /\ v.jsonrpc = "2.0" /\ v.error # <<>>
                    /\ v.result = Absent)
                => /\ call[c].out.kind = "throw"
                   /\ call[c].out.message = v.error[1].message
                   /\ call[c].out.code = <<v.error[1].code>>

\* C5: a payload with neither `status` nor `jsonrpc` makes callApi and callJsonRpc
\* throw, returning no value, and the class of that error (ZodError) is never the
\* class of the error thrown for a server-reported failure.
C5_UnknownEnvelopeIsProtocolError ==
    \A c \in Calls :
        (FetchReturned(c) /\ call[c].via \in {"callApi", "callJsonRpc"}) =>
            LET v == call[c].fetched.value
            IN  /\ (v.type = "object" /\ v.status = Absent /\ v.jsonrpc = Absent)
                    => /\ call[c].out.kind = "throw"
                       /\ call[c].out.error = "ZodError"
                /\ \A d \in Calls :
                    ( /\ FetchReturned(d) /\ Threw(d)
                      /\ \/ call[d].via = "callApi" /\ call[d].fetched.value.status = "0"
                         \/ call[d].via = "callJsonRpc"
                            /\ call[d].fetched.value.jsonrpc = "2.0"
                            /\ call[d].fetched.value.error # <<>> )
                    => call[d].out.error \notin {"ZodError", "none"}

C5_Witness ==
    \E c, d \in Calls :
        /\ FetchReturned(c) /\ call[c].via = "callJsonRpc"
        /\ call[c].fetched.value = NeitherEnvelope
        /\ call[c].out.error = "ZodError"
        /\ FetchReturned(d) /\ call[d].via = "callApi"
        /\ call[d].fetched.value = RestError
        /\ call[d].out.error = "Error"

\* The arguments of a facade call that the claim counts as invalid: a malformed
\* address, a malformed hex hash, page < 1, offset outside [1, 10000], a negative
\* block number.
TakesAddress(method) == method \in {"getBalance", "getTransactions", "getLogs"}
TakesHash(method) == method \in {"checkTransactionStatus", "getTransactionReceipt"}

InvalidInput(rq) ==
    \/ TakesAddress(rq.method) /\ rq.address \notin {LowerAddress, ChecksumAddress}
    \/ TakesHash(rq.method) /\ ~HexStringSuccess(rq.hash)
    \/ rq.method = "getTransactions" /\ rq.page # <<>> /\ rq.page[1] < 1
    \/ rq.method = "getTransactions" /\ rq.offset # <<>>
       /\ (rq.offset[1] < 1 \/ rq.offset[1] > 10000)
    \/ rq.method = "getBlockAndUncleRewardsByBlockNumber" /\ rq.block < 0

\* C6: a facade call with an invalid argument fails with a validation error without
\* invoking the transport and without reading or writing the cache.
C6_ValidationBeforeIO ==
    \A c \in Calls :
        (call[c].pc # "idle" /\ InvalidInput(call[c].request)) =>
            /\ call[c].pc = "done"
            /\ call[c].out.kind = "throw"
            /\ call[c].out.error = "ZodError"
            /\ call[c].invoked = 0
            /\ call[c].reads = 0
            /\ call[c].writes = 0

C8_DistinctRequestsDistinctKeys ==
    (reqB # <<>> /\ DefinedEntries(reqA) # DefinedEntries(reqB))
        => (keyA # keyB /\ hitB = <<>>)

\* Two calls that overlap in time
Concurrent(c1, c2) == c1 # c2 /\ ~Sequential(c1, c2) /\ ~Sequential(c2, c1)

C10_StorageOnlyGrows ==
    [][ /\ DOMAIN storage \subseteq DOMAIN storage'
        /\ \A c \in Calls : call'[c].writes <= 1
        /\ storage' # storage =>
            \E c \in Calls :
                /\ call[c].pc = "setItem" /\ call'[c].pc = "done"
                /\ ~CacheHit(call[c].got)
                /\ call[c].writes = 0
                /\ call[c].key = cacheSerialize(client.serializer, call[c].params)
                /\ storage' = setItem(storage, call[c].key, call[c].response) ]_vars

\* One call missed and wrote its key; a later call hit it and left the storage alone.
C10_Witness ==
    \E c1, c2 \in Calls :
        /\ Done(c1) /\ call[c1].writes = 1
        /\ Done(c2) /\ call[c2].reads = 1 /\ call[c2].invoked = 0
        /\ CacheHit(call[c2].got)
        /\ call[c2].key = call[c1].key
        /\ DOMAIN storage = {call[c1].key}
        /\ storage[call[c1].key] = call[c1].response

\* C11: no call invokes the transport more than once, whatever its outcome; when
\* the transport fails, the caller gets that very error and the call has written
\* nothing to the storage.
C11_NoRetryTransportErrorPropagates ==
    \A c \in Calls :
        /\ call[c].invoked <= 1
        /\ (Done(c) /\ call[c].fetched.kind = "throw") =>
              /\ call[c].fetched.error = "FetchError"
              /\ call[c].out = call[c].fetched
              /\ call[c].invoked = 1
              /\ call[c].writes = 0
              /\ \A i \in 1..Len(writeLog) : writeLog[i].caller # c

\* With a cache, one call's transport failed after a miss and left the storage
\* empty; another call completed with a single invocation and a write.
C11_Witness ==
    \E c, d \in Calls :
        /\ client.cache
        /\ Done(c) /\ call[c].out = Throw("FetchError", "fetch failed")
        /\ call[c].reads = 1 /\ call[c].invoked = 1
        /\ Done(d) /\ call[d].writes = 1 /\ call[d].invoked = 1
        /\ call[d].key # call[c].key
        /\ call[c].key \notin DOMAIN storage

\* A response that callApi / callJsonRpc unwrap to a result
SuccessfulEnvelope(via, v) ==
    \/ via = "callApi" /\ ResponseSuccess(v) /\ v.status = "1"
    \/ via = "callJsonRpc" /\ JsonRpcResponseOk(v) /\ v.result # Absent

\* Call c missed, got a successful envelope and is the last writer of its key
WroteLast(c) ==
    /\ Done(c) /\ call[c].writes = 1
    /\ SuccessfulEnvelope(call[c].via, call[c].response)
    /\ writeLog[Len(writeLog)].caller = c

\* Call d was served from the storage
ServedFromCache(d) ==
    Done(d) /\ call[d].reads = 1 /\ call[d].invoked = 0 /\ CacheHit(call[d].got)

RestTagged(v) == v.type = "object" /\ v.status \in {"0", "1"} /\ v.jsonrpc = Absent
JsonRpcTagged(v) == v.type = "object" /\ v.jsonrpc = "2.0" /\ v.status = Absent

\* C13 (as stated): whenever callApi and callJsonRpc have received the same
\* payload, they produce the same outcome.
C13_SameOutcomeOnBothPaths ==
    \A c, d \in Calls :
        ( /\ FetchReturned(c) /\ call[c].via = "callApi"
          /\ FetchReturned(d) /\ call[d].via = "callJsonRpc"
          /\ call[c].fetched.value = call[d].fetched.value )
        => call[c].out = call[d].out

\* C13 (amended): each path recognises its own envelope only.  callApi rejects a
\* payload tagged `jsonrpc` alone with a validation error and callJsonRpc rejects
\* one tagged `status` alone, while each unwraps the successful envelope of its
\* own shape to the envelope's result.
C13_EachPathItsOwnEnvelope ==
    \A c \in Calls :
        FetchReturned(c) =>
            LET v == call[c].fetched.value
            IN  /\ (call[c].via = "callApi" /\ JsonRpcTagged(v))
                    => call[c].out = Throw("ZodError", "invalid response")
                /\ (call[c].via = "callJsonRpc" /\ RestTagged(v))
                    => call[c].out = Throw("ZodError", "invalid response")
                /\ (call[c].via \in {"callApi", "callJsonRpc"}
                        /\ SuccessfulEnvelope(call[c].via, v))
                    => call[c].out = Return(AsValue(v.result))

\* The same JSON-RPC success payload was unwrapped by callJsonRpc and rejected by
\* callApi.
C13_Witness ==
    \E c, d \in Calls :
        /\ FetchReturned(c) /\ call[c].via = "callApi"
        /\ FetchReturned(d) /\ call[d].via = "callJsonRpc"
        /\ call[c].fetched.value = RpcOk /\ call[d].fetched.value = RpcOk
        /\ call[c].out.error = "ZodError"
        /\ call[d].out = Return(AsValue(RpcOk.result))

\* The atoms of a string
Atoms(text) == {text[i] : i \in 1..Len(text)}

DefinedSeq(params) == SelectSeq(params, LAMBDA e : IsDefined(e.value))

\* C15: two parameter objects of one client that differ only in entries whose
\* value is undefined or null encode to the same URL and derive the same key, so
\* the second request finds the entry stored by the first.
C15_KeyDropsUndefinedEntries ==
    (reqB # <<>> /\ optsA = optsB /\ DefinedSeq(reqA) = DefinedSeq(reqB))
        => (urlA = urlB /\ keyA = keyB /\ hitB = <<"A">>)

TxParsed == output # <<>> /\ input.schema = "EipTransaction"

\* C16: a payload tagged "0x2" that satisfies the fee-market schema is accepted by
\* EipTransaction as the fee-market variant and by neither the legacy nor the
\* access-list schema; every payload EipTransaction accepts satisfies the schema of
\* exactly one variant.
C16_ExactlyOneVariant ==
    TxParsed =>
        /\ (input.value["type"] = Hex("2") /\ "1559" \in output[1].accepts)
            => /\ output[1].EipTransaction = Accepted("1559")
               /\ "legacy" \notin output[1].accepts
               /\ "2930" \notin output[1].accepts
        /\ output[1].EipTransaction.status = "ok"
            => output[1].accepts = {output[1].EipTransaction.variant}

\* The tags of the variants: the three literals and the blob type's "0x3"
KnownTypeTags == {Hex("0"), Hex("1"), Hex("2"), Hex("3")}

\* C17: EipTransaction fails for every payload whose `type` is missing or is none
\* of the variants' tags, and a payload it accepts is accepted as the variant its
\* tag names.
C17_UnknownTagRejected ==
    TxParsed =>
        /\ input.value["type"] \notin KnownTypeTags
            => output[1].EipTransaction.status # "ok"
        /\ output[1].EipTransaction.status = "ok" =>
            /\ input.value["type"] = Hex("0") => output[1].EipTransaction.variant = "legacy"
            /\ input.value["type"] = Hex("1") => output[1].EipTransaction.variant = "2930"
            /\ input.value["type"] = Hex("2") => output[1].EipTransaction.variant = "1559"

SourceParsed == output # <<>> /\ input.schema = "SourceCode" /\ input.value.t = "string"

\* The string is `{` + a JSON document {language, sources, settings?} + `}`
IsWrappedDocument(text) ==
    /\ Len(text) >= 4
    /\ text[1] = "{" /\ text[2] = "{"
    /\ text[Len(text) - 1] = "}" /\ text[Len(text)] = "}"
    /\ \A i \in 3..(Len(text) - 2) : text[i] \in JsonMembers \ {"sourcesNoContent"}
    /\ \A i, j \in 3..(Len(text) - 2) : text[i] = text[j] => i = j
    /\ \E i \in 3..(Len(text) - 2) : text[i] = "language"
    /\ \E i \in 3..(Len(text) - 2) : text[i] = "sources"

\* C18: a SourceCode string that is one pair of braces around a JSON document
\* {language, sources, settings?} parses to that document, with `sources` as a
\* list of {name, content}; every other string comes back verbatim, and JSON.parse
\* is not called for a string that does not both begin with "{" and end with "}".
C18_SourceCodeUnwrap ==
    SourceParsed =>
        LET text == input.value.s
        IN  /\ IsWrappedDocument(text) =>
                /\ output[1].kind = "document"
                /\ output[1].language = "Solidity"
                /\ output[1].sources = <<[name |-> "A.sol", content |-> "c"]>>
                /\ output[1].settings = (\E i \in 1..Len(text) : text[i] = "settings")
            /\ ~IsWrappedDocument(text) =>
                /\ output[1].kind = "string"
                /\ output[1].text = text
            /\ (text = <<>> \/ text[1] # "{" \/ text[Len(text)] # "}")
                => ~output[1].jsonParsed

\* A doubly braced document with settings was unwrapped by one layer and parsed.
C18_Witness ==
    /\ SourceParsed
    /\ input.value.s = <<"{", "{", "language", "sources", "settings", "}", "}">>
    /\ output[1].kind = "document"
    /\ output[1].settings
    /\ output[1].jsonParsed

ContractParsed == output # <<>> /\ input.schema = "ContractSourceCodeResponse"

\* C19: a record whose ABI is the sentinel parses to the unverified variant,
\* whatever its other properties hold, without the verified schema or JSON.parse
\* of the ABI being run; every other record is parsed as verified or rejected.
C19_UnverifiedSentinelFirst ==
    ContractParsed =>
        /\ input.value["ABI"] = Str(NotVerified) =>
            output[1] = ContractOutcome("unverified", FALSE, FALSE)
        /\ input.value["ABI"] # Str(NotVerified) =>
            /\ output[1].kind \in {"verified", "issue", "throw"}
            /\ output[1].verifiedApplied

\* A sentinel record whose other properties the verified schema would reject
C19_Witness ==
    /\ ContractParsed
    /\ input.value["ABI"] = Str(NotVerified)
    /\ input.value["ContractName"] = Undefined
    /\ input.value["Runs"] = Word
    /\ output[1].kind = "unverified"

\* C20: parsing a value with an endpoint schema returns a typed result or fails
\* with a validation error; no other exception leaves the schema.
C20_SchemasAreTotal ==
    ContractParsed => output[1].kind \in {"unverified", "verified", "issue"}

\* "0x" followed by an even number of hexadecimal digits
IsEvenHex(chars) ==
    /\ Len(chars) >= 2 /\ chars[1] = "0" /\ chars[2] = "x"
    /\ (Len(chars) - 2) % 2 = 0
    /\ \A i \in 3..Len(chars) : chars[i] \in HexDigits

\* C21: HexValue and HexString accept a string exactly when it is "0x" followed by
\* an even number of hex digits; "0x" parses to undefined under HexValue and to
\* "0x" under HexString.
C21_HexCodecsEvenLength ==
    (output # <<>> /\ input.schema = "Hex") =>
        LET chars == input.value.s
        IN  /\ (output[1].HexValue.status = "ok") <=> IsEvenHex(chars)
            /\ (output[1].HexString.status = "ok") <=> IsEvenHex(chars)
            /\ chars = <<"0", "x">> =>
                /\ output[1].HexValue = Parsed(Undefined)
                /\ output[1].HexString = Parsed(Str(<<"0", "x">>))

\* C22: Wei accepts a value exactly when it is a non-empty string of decimal
\* digits, yields the integer the digits denote, and never yields a negative value.
C22_WeiDigitsOnly ==
    (output # <<>> /\ input.schema = "Wei") =>
        LET v == input.value
            digits == v.t = "string" /\ v.s # <<>> /\ IsDecimal(v.s)
        IN  /\ (output[1].status = "ok") <=> digits
            /\ digits => output[1].value = BigIntValue(DigitsValue(v.s, 10))
            /\ output[1].status = "ok" => output[1].value.n >= 0

\* digits "." digits with at least one digit: a decimal string
IsPlainDecimal(chars) ==
    /\ chars # <<>> /\ chars # <<".">> /\ chars[1] # "-"
    /\ IsDecimalNumber(chars)

FractionOf(chars) ==
    IF DotAt(chars) = 0 THEN <<>> ELSE SubSeq(chars, DotAt(chars) + 1, Len(chars))

IntegerOf(chars) ==
    IF DotAt(chars) = 0 THEN chars ELSE SubSeq(chars, 1, DotAt(chars) - 1)

\* C23: Ether parses a decimal string d with at most 18 fractional digits to the
\* integer d x 10^18, and fails for one with more than 18 fractional digits.
C23_EtherScalesOrFails ==
    (output # <<>> /\ input.schema = "Ether" /\ input.value.t = "string"
        /\ IsPlainDecimal(input.value.s)) =>
        LET d == input.value.s
        IN  /\ Len(FractionOf(d)) <= 18 =>
                output[1] = Parsed(BigIntOfDigits(FALSE,
                                IntegerOf(d) \o FractionOf(d)
                                \o Zeros(18 - Len(FractionOf(d)))))
            /\ Len(FractionOf(d)) > 18 => output[1].status # "ok"

WireBuilt == output # <<>> /\ input.schema = "Wire" /\ output[1].status = "ok"

\* The value the request carries under `name`, undefined when it carries none
OnTheWire(name) ==
    LET wire == output[1].value
    IN  IF \E i \in 1..Len(wire) : wire[i].name = name
        THEN wire[CHOOSE i \in 1..Len(wire) : wire[i].name = name].value
        ELSE Undefined

\* "0x" and the hexadecimal digits of n
IsHexOf(v, n) ==
    /\ v.t = "string" /\ Len(v.s) >= 3
    /\ v.s[1] = "0" /\ v.s[2] = "x"
    /\ \A i \in 3..Len(v.s) : v.s[i] \in Digits \cup {"a", "b", "c", "d", "e", "f"}
    /\ DigitsValue(SubSeq(v.s, 3, Len(v.s)), 16) = n

\* C24: every number a JSON-RPC method sends is the 0x-prefixed hexadecimal form
\* of the caller's number - block numbers (a tag is sent unchanged, no block is
\* sent as "latest"), uncle and transaction indexes, and each value, gas and
\* gasPrice given to call and estimateGas, zero included.
C24_WireNumbersAreHex ==
    WireBuilt =>
        LET args == input.value
        IN  /\ args.method \in {"getUncleBlock", "getTransaction"} =>
                /\ IsHexOf(OnTheWire("index"), args.index.n)
                /\ args.block.t = "number" => IsHexOf(OnTheWire("tag"), args.block.n)
                /\ args.block.t = "string" => OnTheWire("tag") = args.block
                /\ args.block.t = "undefined" => OnTheWire("tag") = Str(<<"latest">>)
            /\ args.method \in {"call", "estimateGas"} =>
                \A f \in {"value", "gas", "gasPrice"} :
                    args[f].t = "number" => IsHexOf(OnTheWire(f), args[f].n)

\* 0x and 40 hexadecimal digits in either case
IsWellFormedAddress(v) ==
    /\ v.t = "string" /\ Len(v.s) = 42 /\ v.s[1] = "0" /\ v.s[2] = "x"
    /\ \A i \in 3..42 : LowerCaseChar(v.s[i]) \in Digits \cup {"a", "b", "c", "d", "e", "f"}

SameButForCase(v, w) ==
    /\ v.t = "string" /\ w.t = "string" /\ Len(v.s) = Len(w.s)
    /\ \A i \in 1..Len(v.s) : LowerCaseChar(v.s[i]) = LowerCaseChar(w.s[i])

\* C25: Address parsing is idempotent and insensitive to case - an address parsed
\* again is returned as it is, two well-formed addresses that differ only in the
\* case of their digits parse to the same address - and a malformed address is
\* rejected.
C25_AddressIdempotentCaseInsensitive ==
    AddressSchema =>
        /\ (Len(output) >= 1 /\ ~IsWellFormedAddress(input.value.first))
                => output[1].status # "ok"
        /\ (Len(output) >= 1 /\ IsWellFormedAddress(input.value.first))
                => (output[1].status = "ok" /\ SameButForCase(output[1].value, input.value.first))
        /\ (Len(output) >= 2 /\ IsWellFormedAddress(input.value.first)
                /\ IsWellFormedAddress(input.value.second)
                /\ SameButForCase(input.value.first, input.value.second))
                => output[2] = output[1]
        /\ Len(output) = 3 => output[3] = output[1]

\* An address in mixed case was parsed, then the same digits in another case, then
\* the result again, and the result differs from both spellings
C25_Witness ==
    /\ AddressSchema /\ Len(output) = 3
    /\ input.value.first # input.value.second
    /\ SameButForCase(input.value.first, input.value.second)
    /\ toLowerCase(input.value.first.s) # input.value.first.s
    /\ output[1].status = "ok"
    /\ output[1].value \notin {input.value.first, input.value.second}

StatusParsed == output # <<>> /\ input.schema = "Status"

\* The value of a property of the object the parse returned, undefined when it has
\* no such property
Property(object, name) ==
    IF \E i \in 1..Len(object) : object[i].name = name
    THEN object[CHOOSE i \in 1..Len(object) : object[i].name = name].value
    ELSE Undefined

C27_StoredPayloadServedWhateverItsValue ==
    \A c1, c2 \in Calls :
        ( /\ client.cache
          /\ Sequential(c1, c2)
          /\ Done(c1) /\ call[c1].writes = 1
          /\ Done(c2) /\ call[c2].valid /\ call[c2].key = call[c1].key
          /\ \A d \in Calls \ {c1, c2} :
                call[d].pc = "idle" \/ call[d].key # call[c1].key )
        => /\ call[c2].invoked = 0
           /\ call[c2].fetched = Return(call[c1].response)

LogsBuilt == output # <<>> /\ input.schema = "Logs"

\* C28: getLogs never silently drops a filter the caller supplies - every one of
\* address, topic0, topic1 and topic0_1_opr that the input holds is in the request
\* as supplied, or the call fails validation.
C28_GetLogsKeepsEveryFilter ==
    LogsBuilt =>
        \/ output[1].status # "ok"
        \/ \A f \in {"address", "topic0", "topic1", "topic0_1_opr"} :
                input.value[f].t # "undefined" =>
                    Property(output[1].value, f) = input.value[f]

\* C29: a call that has started completes - it returns a value or raises an error -
\* provided the storage operations and the transport invocation it awaits
\* complete; a call at an await is never held back by another call, one with the
\* same key included.
C29_EveryCallCompletes ==
    /\ [](\A c \in Calls :
            /\ call[c].pc = "getItem" => ENABLED AwaitGetItem(c)
            /\ call[c].pc = "ofetch" => ENABLED AwaitOfetch(c)
            /\ call[c].pc = "setItem" => ENABLED AwaitSetItem(c))
    /\ \A c \in Calls : (call[c].pc # "idle") ~> Done(c)

\* Two concurrent calls with one key went through getItem at the same time and
\* both completed, one with a value and one with the error of the transport
C29_Witness ==
    \E c1, c2 \in Calls :
        /\ client.cache /\ Concurrent(c1, c2)
        /\ call[c1].key = call[c2].key /\ call[c1].valid /\ call[c2].valid
        /\ Returned(c1) /\ call[c1].writes = 1
        /\ Threw(c2) /\ call[c2].invoked = 1 /\ call[c2].writes = 0
        /\ call[c2].response = UndefinedJson

\* C30: a client without a cache invokes the transport exactly once on every call
\* that passes validation, repeated identical calls included, and never reads or
\* writes a storage; what a call returns is what a call of a client with a cache
\* returns on a miss, the unwrapped response of the transport.
C30_NoCacheClientBypassesStorage ==
    /\ ~client.cache =>
        /\ storage = EmptyStorage /\ writeLog = <<>>
        /\ \A c \in Calls :
            /\ call[c].reads = 0 /\ call[c].writes = 0
            /\ (call[c].pc # "idle" /\ call[c].valid) => call[c].invoked = 1
    /\ \A c \in Calls :
        (FetchReturned(c) /\ call[c].invoked = 1) =>
            /\ call[c].fetched = Return(call[c].response)
            /\ call[c].out = Unwrap(call[c].via, client.build, call[c].response)

\* A client without a cache made the same call twice in a row; each call invoked
\* the transport and returned, and the storage is empty
C30_Witness ==
    \E c1, c2 \in Calls :
        /\ ~client.cache /\ Sequential(c1, c2)
        /\ call[c1].request = call[c2].request
        /\ Returned(c1) /\ Returned(c2)
        /\ call[c1].invoked = 1 /\ call[c2].invoked = 1
        /\ storage = EmptyStorage

====
